---- MODULE Spec2Model ----
(***************************************************************************)
(* robo-news: a pipeline of worker processes that share one SQLite table   *)
(* `news` (id, title, url, date, status) and one data directory.  Every    *)
(* worker is a sequential polling loop: fetch the rows whose status it     *)
(* consumes, handle them one by one, UPDATE the status of each.            *)
(*                                                                         *)
(* The model keeps the table, the data directory and, per worker, the      *)
(* position of its loop together with the rows it fetched (a snapshot it   *)
(* holds in memory while other workers keep running).                      *)
(***************************************************************************)
EXTENDS Integers, Sequences, FiniteSets, TLC

\* ------------------------------------------------------------------ bounds
MaxItems == 2      \* distinct article URLs a feed can show
MaxDate == 2       \* distinct wall-clock readings in the date column
MaxFeed == 1       \* entries of one fetched feed page
MaxLost == 1       \* recorded attempts of an AI stage on an item that left no status
MaxSends == 2      \* successful Telegram sends recorded per item
MaxRetryAfter == 1 \* largest retry_after value an error text names
MaxText == 5       \* pieces of one provider answer
MaxNodes == 3      \* nodes in the body of one converted document
MaxChars == 5      \* characters of one string stripped of its markup
\* The limit of sendMessage in UTF-16 code units: 4096 in the code, brought
\* down to the length of the messages of the model.
TELEGRAM_SENDMESSAGE_TEXT_LIMIT_UTF16 == 14
\* The limit of createPage in bytes: 64 * 1024 in the code, brought down
\* likewise.
TELEGRAPH_CREATEPAGE_CONTENT_LIMIT_BYTES == 48

Urls == 1..MaxItems

\* ------------------------------------------------------------ parser-feed1
\* sha256 of the URL, hex encoded: a fixed injective map from URLs to ids.
generate_id(url) == (url * 5) % 7

Ids == {generate_id(u) : u \in Urls}

\* The date column is TEXT: the datetime attribute of the page as it
\* stands, or the fetch time written as RFC 3339 at +02:00.  A date text is
\* modelled by its wall-clock reading and its UTC offset, <<local, offset>>.
Offsets == {0, 2}

DateTexts == {<<l, o>> : l \in 1..MaxDate, o \in Offsets}

\* The order of two date texts as strings: the wall-clock part comes first.
date_text_le(a, b) == a[1] < b[1] \/ (a[1] = b[1] /\ a[2] <= b[2])

\* The moment a date text names.
instant(d) == d[1] - d[2]

\* One headline of the feed page: its text, its link and its datetime.
\* An article keeps the headline and the wall-clock reading it was published
\* with.
FeedEntries ==
    {[title |-> u, url |-> u, date |-> <<((u - 1) % MaxDate) + 1, o>>] :
        u \in Urls, o \in Offsets}

FeedPages == UNION {[1..n -> FeedEntries] : n \in 1..MaxFeed}

\* is_news_exists finding no row whatever the table holds.
is_news_exists_never(table, id) == FALSE

\* SELECT 1 FROM news WHERE id = ? LIMIT 1
is_news_exists(table, id) == id \in DOMAIN table

\* INSERT INTO news (id, title, url, date, status) VALUES (...)
store_news(table, item) ==
    [i \in DOMAIN table \cup {item.id} |->
        IF i = item.id
        THEN [title |-> item.title, url |-> item.url, date |-> item.date,
              status |-> item.status]
        ELSE table[i]]

\* The items fetch_news builds from a page: id from the URL, status "new".
\* (built in page order and then reversed).
fetch_news(page) ==
    [k \in 1..Len(page) |->
        LET e == page[Len(page) + 1 - k]
        IN  [id |-> generate_id(e.url), title |-> e.title,
             url |-> e.url, date |-> e.date, status |-> "new"]]

\* The loop of run_parser over the first n items of the page.
RECURSIVE parser_store(_, _, _)
parser_store(table, items, n) ==
    IF n = 0 THEN table
    ELSE LET before == parser_store(table, items, n - 1)
         IN  IF ~is_news_exists(before, items[n].id)
             THEN store_news(before, items[n])
             ELSE before

\* ------------------------------------------------------------ status store
\* update_status setting the date column of the row as well.
update_status_and_date(table, id, status) ==
    [i \in DOMAIN table |->
        IF i = id
        THEN [table[i] EXCEPT !.status = status, !.date = <<1, 0>>]
        ELSE table[i]]

\* UPDATE news SET status = ? WHERE id = ?  (the same statement in every
\* worker: no condition on the stored status, no other column touched).
update_status(table, id, status) ==
    [i \in DOMAIN table |->
        IF i = id THEN [table[i] EXCEPT !.status = status] ELSE table[i]]

\* SELECT ... FROM news WHERE status IN (...) ORDER BY date ASC: every
\* listing of the matching rows in which the date texts never decrease as
\* strings (rows with equal dates come in an order SQLite does not promise).
select_by_status(table, statuses) ==
    LET hit == {i \in DOMAIN table : table[i].status \in statuses}
        n == Cardinality(hit)
    IN  {q \in [1..n -> hit] :
            /\ \A a, b \in 1..n : a # b => q[a] # q[b]
            /\ \A a, b \in 1..n : a < b => date_text_le(table[q[a]].date, table[q[b]].date)}

\* The NewsItem values a fetch returns: the row as it was when it was read.
news_items(table, q) ==
    [k \in 1..Len(q) |-> [id |-> q[k], status |-> table[q[k]].status]]

Stages == {"downloader", "scraper", "rewriter", "illustrator", "publisher"}
AIStages == {"rewriter", "illustrator"}

\* The WHERE clause of each worker's fetch.
InputStatuses(s) ==
    CASE s = "downloader" -> {"new"}
      [] s = "scraper" -> {"downloaded"}
      [] s = "rewriter" -> {"translated", "rewriter_retry"}
      [] s = "illustrator" -> {"rewriter", "illustrator_retry"}
      [] s = "publisher" -> {"translated"}

fetch_new_items(table) == select_by_status(table, InputStatuses("downloader"))
fetch_downloaded_items(table) == select_by_status(table, InputStatuses("scraper"))
fetch_items_to_rewrite(table) == select_by_status(table, InputStatuses("rewriter"))
fetch_items_to_illustrate(table) == select_by_status(table, InputStatuses("illustrator"))
fetch_translated_items(table) == select_by_status(table, InputStatuses("publisher"))

fetch(s, table) ==
    CASE s = "downloader" -> fetch_new_items(table)
      [] s = "scraper" -> fetch_downloaded_items(table)
      [] s = "rewriter" -> fetch_items_to_rewrite(table)
      [] s = "illustrator" -> fetch_items_to_illustrate(table)
      [] s = "publisher" -> fetch_translated_items(table)

\* ----------------------------------------------------------- data directory
\* A file of the data directory: absent, cut short by a failed write
\* ("torn"), or holding what its stage wrote in full.
FileStates == {"absent", "torn", "data", "html", "text", "png"}
FileNames == {"news", "scraper", "translator", "rewriter", "illustrator"}

\* --------------------------------------------------------- downloader-feed1
DownloadResponses ==
    {"ok", "send_error", "http_error", "text_error", "create_error", "write_error"}

\* download_news_item with the result of write_all dropped.
download_news_item_unchecked_write(resp, old) ==
    [ok |-> resp \in {"ok", "write_error"},
     file |-> CASE resp = "ok" -> "data"
                [] resp = "write_error" -> "torn"
                [] OTHER -> old]

\* GET the URL, create data/news_<id>.html, write the body.
download_news_item(resp, old) ==
    [ok |-> resp = "ok",
     file |-> CASE resp = "ok" -> "data"
                [] resp = "write_error" -> "torn"
                [] OTHER -> old]

\* ------------------------------------------------------------------ scraper
ScrapeResults == {"ok", "read_error", "extract_error", "create_error", "write_error"}

\* Read data/news_<id>.html, extract the article, write data/scraper_<id>.html.
scraper_process_news_item(input, io, old) ==
    IF input = "absent" \/ io \in {"read_error", "extract_error", "create_error"}
    THEN [ok |-> FALSE, file |-> old]
    ELSE IF io = "write_error"
    THEN [ok |-> FALSE, file |-> "torn"]
    ELSE [ok |-> TRUE, file |-> "data"]

\* ----------------------------------------------------------------- rewriter
FinishReasons == {"none", "stop", "error", "length"}

\* ------------------------------------------------ rewriter: reasoning effort
\* The value of an environment variable: not set (<<>>) or <<text>>, the
\* text being a word, written in lower or in upper case, with or without
\* white space around it.
EnvValues(words) ==
    {<<>>} \cup {<<[word |-> w, upper |-> u, padded |-> p]>> :
                    w \in words, u \in BOOLEAN, p \in BOOLEAN}

EnabledWords ==
    {"", "-", "1", "true", "yes", "y", "on", "0", "false", "no", "n", "off", "maybe"}

EffortWords == {"", "-", "xhigh", "high", "medium", "low", "minimal", "none", "max", "turbo"}

TextProviderTypes == {"OpenRouter", "Perplexity", "Gemini"}

\* value.trim() and to_ascii_lowercase(): the word itself.
normalized(text) == text.word

parse_optional_bool_env(text) ==
    LET v == normalized(text) IN
    IF v \in {"", "-"} THEN <<>>
    ELSE IF v \in {"1", "true", "yes", "y", "on"} THEN <<TRUE>>
    ELSE IF v \in {"0", "false", "no", "n", "off"} THEN <<FALSE>>
    ELSE <<>>

parse_optional_effort_env(text) ==
    LET v == normalized(text) IN
    IF v \in {"", "-"} THEN <<>>
    ELSE IF v \in {"xhigh", "high", "medium", "low", "minimal", "none"} THEN <<v>>
    ELSE <<>>

\* The ReasoningConfig of the two variables: <<>> is None.
read_ai_provider_reasoning_from_env(enabled_raw, effort_raw) ==
    LET given == IF enabled_raw = <<>> THEN <<>> ELSE parse_optional_bool_env(enabled_raw[1])
        effort == IF effort_raw = <<>> THEN <<>> ELSE parse_optional_effort_env(effort_raw[1])
        enabled == IF given = <<>> /\ effort # <<>> THEN <<effort[1] # "none">> ELSE given
    IN  IF enabled = <<>> /\ effort = <<>> THEN <<>>
        ELSE <<[enabled |-> enabled, effort |-> effort]>>

\* perplexity_reasoning_effort_from_reasoning sending the effort of a
\* reasoning setting that was switched off.
perplexity_reasoning_effort_ignores_enabled(reasoning) ==
    IF reasoning = <<>> THEN <<>>
    ELSE IF reasoning[1].effort = <<>> THEN <<>>
    ELSE LET effort == reasoning[1].effort[1] IN
         IF effort \in {"xhigh", "high"} THEN <<"high">>
         ELSE IF effort = "medium" THEN <<"medium">>
         ELSE IF effort \in {"low", "minimal"} THEN <<"low">>
         ELSE <<>>

perplexity_reasoning_effort_from_reasoning(reasoning) ==
    IF reasoning = <<>> THEN <<>>
    ELSE IF reasoning[1].enabled = <<FALSE>> THEN <<>>
    ELSE IF reasoning[1].effort = <<>> THEN <<>>
    ELSE LET effort == reasoning[1].effort[1] IN
         IF effort \in {"xhigh", "high"} THEN <<"high">>
         ELSE IF effort = "medium" THEN <<"medium">>
         ELSE IF effort \in {"low", "minimal"} THEN <<"low">>
         ELSE <<>>

gemini_reasoning_effort_from_reasoning(reasoning) ==
    IF reasoning = <<>> THEN <<>>
    ELSE IF reasoning[1].enabled = <<FALSE>> THEN <<>>
    ELSE IF reasoning[1].effort = <<>> THEN <<>>
    ELSE LET effort == reasoning[1].effort[1] IN
         IF effort \in {"xhigh", "high"} THEN <<"high">>
         ELSE IF effort = "medium" THEN <<"medium">>
         ELSE IF effort = "low" THEN <<"low">>
         ELSE IF effort = "minimal" THEN <<"minimal">>
         ELSE <<>>

\* The effort the request of rewrite_content carries for a provider type:
\* OpenRouter is sent the reasoning object as it is, the others their own
\* reasoning_effort.
request_effort(provider_type, reasoning) ==
    CASE provider_type = "OpenRouter" ->
            IF reasoning = <<>> THEN <<>> ELSE reasoning[1].effort
      [] provider_type = "Perplexity" -> perplexity_reasoning_effort_from_reasoning(reasoning)
      [] provider_type = "Gemini" -> gemini_reasoning_effort_from_reasoning(reasoning)

\* The worker's configuration as the environment gives it.
ReasoningEnvs ==
    [provider_type : TextProviderTypes, enabled : EnvValues(EnabledWords),
     effort : EnvValues(EffortWords)]

\* ------------------------------------------------- rewriter: text extraction
\* A provider answer as a sequence of pieces: the substrings the extractors
\* search for, the word html, a line break ("nl") and other text; "fence"
\* is the three backquotes that open and close a fenced block, so the fence
\* tagged html is the piece "fence" followed by the piece "html".
TextPieces == {"<html", "<!DOCTYPE", "<!doctype", "</html>", "fence", "html", "nl", "x"}

Texts == UNION {[1..n -> TextPieces] : n \in 0..MaxText}

\* str::find: the first place where pat starts in s, 0 when there is none.
find(s, pat) ==
    LET hits == {i \in 1..(Len(s) - Len(pat) + 1) : SubSeq(s, i, i + Len(pat) - 1) = pat}
    IN  IF hits = {} THEN 0 ELSE CHOOSE i \in hits : \A j \in hits : i <= j

\* str::rfind: the last place where pat starts in s, 0 when there is none.
rfind(s, pat) ==
    LET hits == {i \in 1..(Len(s) - Len(pat) + 1) : SubSeq(s, i, i + Len(pat) - 1) = pat}
    IN  IF hits = {} THEN 0 ELSE CHOOSE i \in hits : \A j \in hits : i >= j

\* str::trim: the text without the white space at its two ends.
trim(s) ==
    LET solid == {i \in 1..Len(s) : s[i] # "nl"}
    IN  IF solid = {} THEN <<>>
        ELSE SubSeq(s, CHOOSE i \in solid : \A j \in solid : i <= j,
                       CHOOSE i \in solid : \A j \in solid : i >= j)

\* The text after the first k pieces.
after(s, k) == SubSeq(s, k + 1, Len(s))

\* Option values: <<>> is None, <<v>> is Some(v).
extract_html_document_block(s) ==
    LET start == IF find(s, <<"<html">>) # 0 THEN find(s, <<"<html">>)
                 ELSE IF find(s, <<"<!DOCTYPE">>) # 0 THEN find(s, <<"<!DOCTYPE">>)
                 ELSE find(s, <<"<!doctype">>)
        end == rfind(s, <<"</html>">>)
    IN  IF start = 0 \/ end = 0 \/ start > end THEN <<>>
        ELSE <<trim(SubSeq(s, start, end))>>

extract_fenced_block(s, fence_start) ==
    LET start_pos == find(s, fence_start)
        rest == after(s, start_pos + Len(fence_start) - 1)
        body == IF rest # <<>> /\ rest[1] = "nl" THEN after(rest, 1) ELSE rest
        end_pos == find(body, <<"fence">>)
    IN  IF start_pos = 0 \/ end_pos = 0 THEN <<>>
        ELSE <<trim(SubSeq(body, 1, end_pos - 1))>>

extract_any_fenced_block(s) ==
    LET start_pos == find(s, <<"fence">>)
        rest == after(s, start_pos)
        nl == find(rest, <<"nl">>)
        body == IF nl # 0 THEN after(rest, nl) ELSE rest
        end_pos == find(body, <<"fence">>)
    IN  IF start_pos = 0 \/ end_pos = 0 THEN <<>>
        ELSE <<trim(SubSeq(body, 1, end_pos - 1))>>

post_process_html_response(content) ==
    LET c == trim(content) IN
    IF extract_html_document_block(c) # <<>> THEN extract_html_document_block(c)[1]
    ELSE IF extract_fenced_block(c, <<"fence", "html">>) # <<>>
    THEN extract_fenced_block(c, <<"fence", "html">>)[1]
    ELSE IF extract_any_fenced_block(c) # <<>> THEN extract_any_fenced_block(c)[1]
    ELSE c

\* The substrings looks_like_html searches the lower-cased content for:
\* "<html", "</html>", "<body", "</body>" and "<!doctype html".
Markers == {"html_open", "html_close", "body_open", "body_close", "doctype"}

\* looks_like_html accepting a document that was opened and never closed.
looks_like_html_without_closing(markers) ==
    "html_open" \in markers \/ "body_open" \in markers \/ "doctype" \in markers

looks_like_html(markers) ==
    \/ "html_open" \in markers /\ "html_close" \in markers
    \/ "body_open" \in markers /\ "body_close" \in markers
    \/ "doctype" \in markers /\ "html_close" \in markers

\* What the chat-completion call can come back with: the transport result,
\* the HTTP status class, whether the body is the expected JSON, whether it
\* has a first choice, that choice's finish_reason ("none": the field is
\* null) and the markers the post-processed content holds.
ChatResponses ==
    [transport : {"ok", "send_error", "body_error"}, http_ok : BOOLEAN,
     json_ok : BOOLEAN, has_choice : BOOLEAN, finish_reason : FinishReasons,
     markers : SUBSET Markers]

ApiResult(tag, content, finish_reason) ==
    [tag |-> tag, content |-> content, finish_reason |-> finish_reason]

\* parse_chat_response looking at the HTTP status before it parses the body,
\* as the image parsers do.
rewriter_parse_chat_response_status_first(r) ==
    LET html == looks_like_html(r.markers)
        content == IF html THEN "html" ELSE "text" IN
    IF r.transport = "body_error" THEN ApiResult("RequestError", "none", "none")
    ELSE IF ~r.http_ok THEN ApiResult("ApiReturnedError", content, "error")
    ELSE IF ~r.json_ok THEN ApiResult("ParseError", "none", "none")
    ELSE IF ~r.has_choice THEN ApiResult("EmptyChoices", "none", "none")
    ELSE IF r.finish_reason \in {"error", "length"}
    THEN ApiResult("ApiReturnedError", content, r.finish_reason)
    ELSE IF ~html
    THEN ApiResult("ApiReturnedError", content, "error")
    ELSE ApiResult("Ok", content, r.finish_reason)

rewriter_parse_chat_response(r) ==
    LET html == looks_like_html(r.markers)
        content == IF html THEN "html" ELSE "text" IN
    IF r.transport = "body_error" THEN ApiResult("RequestError", "none", "none")
    ELSE IF ~r.json_ok THEN ApiResult("ParseError", "none", "none")
    ELSE IF ~r.has_choice THEN ApiResult("EmptyChoices", "none", "none")
    ELSE IF ~r.http_ok
    THEN IF ~html
         THEN ApiResult("ApiReturnedError", content, "error")
         ELSE ApiResult("ApiReturnedError", content, r.finish_reason)
    ELSE IF r.finish_reason \in {"error", "length"}
    THEN ApiResult("ApiReturnedError", content, r.finish_reason)
    ELSE IF ~html
    THEN ApiResult("ApiReturnedError", content, "error")
    ELSE ApiResult("Ok", content, r.finish_reason)

rewrite_content(r) ==
    IF r.transport = "send_error"
    THEN ApiResult("RequestError", "none", "none")
    ELSE rewriter_parse_chat_response(r)

\* Local I/O of process_news_item around the provider call.
StageIo == {"ok", "read_error", "create_error", "write_error"}

\* The provider outcome a processing attempt amounts to.
outcome_of(ok, tag) ==
    IF ~ok THEN "HardFailure"
    ELSE IF tag = "Ok" THEN "Success"
    ELSE "SoftFailure"

\* process_news_item keeping nothing of an ApiReturnedError: no file written,
\* Err returned.
rewriter_process_news_item_drops_partial(input, r, io, old) ==
    IF input = "absent" \/ io = "read_error"
    THEN [ok |-> FALSE, finish_reason |-> "none", file |-> old,
          outcome |-> "HardFailure"]
    ELSE LET res == rewrite_content(r) IN
         IF res.tag # "Ok" \/ io = "create_error"
         THEN [ok |-> FALSE, finish_reason |-> "none", file |-> old,
               outcome |-> outcome_of(FALSE, res.tag)]
         ELSE IF io = "write_error"
         THEN [ok |-> FALSE, finish_reason |-> "none", file |-> "torn",
               outcome |-> outcome_of(FALSE, res.tag)]
         ELSE [ok |-> TRUE, finish_reason |-> res.finish_reason,
               file |-> res.content,
               outcome |-> outcome_of(TRUE, res.tag)]

\* Read data/translator_<id>.html, call the write the content of
\* an Ok or ApiReturnedError result to data/rewriter_<id>.html and return
\* Ok(finish_reason); everything else is Err.
rewriter_process_news_item(input, r, io, old) ==
    IF input = "absent" \/ io = "read_error"
    THEN [ok |-> FALSE, finish_reason |-> "none", file |-> old,
          outcome |-> "HardFailure"]
    ELSE LET res == rewrite_content(r) IN
         IF res.tag \notin {"Ok", "ApiReturnedError"} \/ io = "create_error"
         THEN [ok |-> FALSE, finish_reason |-> "none", file |-> old,
               outcome |-> outcome_of(FALSE, res.tag)]
         ELSE IF io = "write_error"
         THEN [ok |-> FALSE, finish_reason |-> "none", file |-> "torn",
               outcome |-> outcome_of(FALSE, res.tag)]
         ELSE [ok |-> TRUE, finish_reason |-> res.finish_reason,
               file |-> res.content,
               outcome |-> outcome_of(TRUE, res.tag)]

\* run_rewriter giving an Err of process_news_item another attempt whatever
\* the status the item was fetched with.
rewriter_next_status_err_always_retries(ok, finish_reason, current_status) ==
    IF ok
    THEN IF finish_reason \in {"error", "length"}
         THEN IF current_status = "rewriter_retry"
              THEN "rewriter_error" ELSE "rewriter_retry"
         ELSE "rewriter"
    ELSE "rewriter_retry"

\* The status run_rewriter picks from the result of process_news_item and
\* the status the item had when it was fetched.
rewriter_next_status(ok, finish_reason, current_status) ==
    IF ok
    THEN IF finish_reason \in {"error", "length"}
         THEN IF current_status = "rewriter_retry"
              THEN "rewriter_error" ELSE "rewriter_retry"
         ELSE "rewriter"
    ELSE IF current_status = "rewriter_retry"
         THEN "rewriter_error" ELSE "rewriter_retry"

\* -------------------------------------------------------------- illustrator
ProviderTypes == {"OpenRouter", "Gemini"}

\* The eight bytes a PNG file starts with.
PNG_SIGNATURE == <<137, 80, 78, 71, 13, 10, 26, 10>>

\* The image payloads tried: every proper prefix of the signature, the
\* signature alone and followed by data, and the signature with one byte
\* changed, alone and followed by data.
ImagePayloads ==
    {SubSeq(PNG_SIGNATURE, 1, k) : k \in 0..8}
        \cup {PNG_SIGNATURE \o <<0>>}
        \cup {[PNG_SIGNATURE EXCEPT ![j] = 0] \o t : j \in 1..8, t \in {<<>>, <<0>>}}

\* looks_like_png comparing the bytes the payload has, however few.
looks_like_png_compares_what_is_there(bytes) ==
    \A k \in 1..Len(bytes) : k <= 8 => bytes[k] = PNG_SIGNATURE[k]

looks_like_png(bytes) ==
    Len(bytes) >= Len(PNG_SIGNATURE)
        /\ SubSeq(bytes, 1, Len(PNG_SIGNATURE)) = PNG_SIGNATURE

\* What the image call can come back with: the transport result, the HTTP
\* status class, whether the body is the expected JSON, whether it names an
\* image (a first choice with an image URL; a first candidate with inline
\* data), whether the image bytes could be obtained (base64 decoded, or
\* downloaded from the URL) and the bytes obtained.
ImageResponses ==
    [transport : {"ok", "send_error", "body_error"}, http_ok : BOOLEAN,
     json_ok : BOOLEAN, has_image : BOOLEAN,
     bytes : {"ok", "decode_error", "download_error"}, payload : ImagePayloads]

parse_openrouter_image_from_chat_response(r) ==
    IF r.transport = "body_error" THEN ApiResult("RequestError", "none", "none")
    ELSE IF ~r.http_ok THEN ApiResult("ApiReturnedError", "text", "error")
    ELSE IF ~r.json_ok THEN ApiResult("ParseError", "none", "none")
    ELSE IF ~r.has_image THEN ApiResult("EmptyImageData", "none", "none")
    ELSE IF r.bytes = "decode_error" THEN ApiResult("ParseError", "none", "none")
    ELSE IF r.bytes = "download_error" THEN ApiResult("RequestError", "none", "none")
    ELSE IF ~looks_like_png(r.payload) THEN ApiResult("ApiReturnedError", "text", "error")
    ELSE ApiResult("Ok", "png", "none")

\* Gemini returns the image inline: there is nothing to download.
parse_gemini_image_from_generate_content_response(r) ==
    IF r.transport = "body_error" THEN ApiResult("RequestError", "none", "none")
    ELSE IF ~r.http_ok THEN ApiResult("ApiReturnedError", "text", "error")
    ELSE IF ~r.json_ok THEN ApiResult("ParseError", "none", "none")
    ELSE IF ~r.has_image THEN ApiResult("EmptyImageData", "none", "none")
    ELSE IF r.bytes # "ok" THEN ApiResult("ParseError", "none", "none")
    ELSE IF ~looks_like_png(r.payload) THEN ApiResult("ApiReturnedError", "text", "error")
    ELSE ApiResult("Ok", "png", "none")

illustrate_content(provider_type, r) ==
    IF r.transport = "send_error"
    THEN ApiResult("RequestError", "none", "none")
    ELSE IF provider_type = "OpenRouter"
    THEN parse_openrouter_image_from_chat_response(r)
    ELSE parse_gemini_image_from_generate_content_response(r)

\* process_news_item of the illustrator writing what came with an
\* ApiReturnedError to the output file, as the rewriter does.
illustrator_process_news_item_keeps_partial(input, provider_type, r, io, old) ==
    IF input = "absent" \/ io = "read_error"
    THEN [ok |-> FALSE, finish_reason |-> "none", file |-> old,
          outcome |-> "HardFailure"]
    ELSE LET res == illustrate_content(provider_type, r) IN
         IF res.tag \notin {"Ok", "ApiReturnedError"} \/ io = "create_error"
         THEN [ok |-> FALSE, finish_reason |-> "none", file |-> old,
               outcome |-> "HardFailure"]
         ELSE IF io = "write_error"
         THEN [ok |-> FALSE, finish_reason |-> "none", file |-> "torn",
               outcome |-> "HardFailure"]
         ELSE [ok |-> TRUE, finish_reason |-> res.finish_reason,
               file |-> res.content,
               outcome |-> IF res.tag = "Ok" THEN "Success" ELSE "SoftFailure"]

\* Read data/rewriter_<id>.html, call the write the image of an
\* Ok result to data/illustrator_<id>.png; an ApiReturnedError writes
\* nothing and returns Ok(finish_reason); everything else is Err.
illustrator_process_news_item(input, provider_type, r, io, old) ==
    IF input = "absent" \/ io = "read_error"
    THEN [ok |-> FALSE, finish_reason |-> "none", file |-> old,
          outcome |-> "HardFailure"]
    ELSE LET res == illustrate_content(provider_type, r) IN
         IF res.tag = "ApiReturnedError"
         THEN [ok |-> TRUE, finish_reason |-> res.finish_reason, file |-> old,
               outcome |-> "SoftFailure"]
         ELSE IF res.tag # "Ok" \/ io = "create_error"
         THEN [ok |-> FALSE, finish_reason |-> "none", file |-> old,
               outcome |-> "HardFailure"]
         ELSE IF io = "write_error"
         THEN [ok |-> FALSE, finish_reason |-> "none", file |-> "torn",
               outcome |-> "HardFailure"]
         ELSE [ok |-> TRUE, finish_reason |-> res.finish_reason,
               file |-> res.content, outcome |-> "Success"]

\* The status run_illustrator picks.
illustrator_next_status(ok, finish_reason, current_status) ==
    IF ok
    THEN IF finish_reason \in {"error", "length"}
         THEN IF current_status = "illustrator_retry"
              THEN "illustrator_error" ELSE "illustrator_retry"
         ELSE "illustrator"
    ELSE IF current_status = "illustrator_retry"
         THEN "illustrator_error" ELSE "illustrator_retry"

\* ---------------------------------------------------------------- publisher
\* Read data/translator_<id>.html, convert it, write data/publisher_<id>.html.
\* send_to_telegram reads that file back in the same pass of the loop and
\* nothing else ever reads it, so the data directory of the model leaves
\* it out.
process_html_file(input, io) ==
    input # "absent" /\ io = "ok"

\* ------------------------------------------------- publisher: rich text
\* A string is the sequence of its characters.  "nl" is the newline, "x"
\* and the letters are characters of the basic plane, "E" is a character
\* outside it (two UTF-16 code units).
is_whitespace(ch) == ch \in {" ", "nl"}

\* str::trim: white space dropped at both ends.
RECURSIVE str_trim(_)
str_trim(s) ==
    IF s = <<>> THEN s
    ELSE IF is_whitespace(s[1]) THEN str_trim(Tail(s))
    ELSE IF is_whitespace(s[Len(s)]) THEN str_trim(SubSeq(s, 1, Len(s) - 1))
    ELSE s

\* str::ends_with.
ends_with(s, suffix) ==
    /\ Len(s) >= Len(suffix)
    /\ SubSeq(s, Len(s) - Len(suffix) + 1, Len(s)) = suffix

\* str::replace: the matches of `from` found from left to right, none
\* overlapping another, each replaced by `to`; what a replacement produces
\* is not searched again.
RECURSIVE replace(_, _, _)
replace(s, from, to) ==
    IF Len(s) < Len(from) THEN s
    ELSE IF SubSeq(s, 1, Len(from)) = from
         THEN to \o replace(SubSeq(s, Len(from) + 1, Len(s)), from, to)
         ELSE <<s[1]>> \o replace(Tail(s), from, to)

\* The nodes of the parsed document the conversion looks at: text nodes
\* and elements (tag name, href attribute if any, children).
TextNode(text) ==
    [tag |-> "#text", href |-> <<>>, text |-> text, children |-> <<>>]

Element(tag, href, children) ==
    [tag |-> tag, href |-> href, text |-> <<>>, children |-> children]

\* process_element and process_element_children: `result` is the string
\* built so far, the value is the string after the call.
RECURSIVE process_element(_, _)
RECURSIVE process_element_children(_, _)
RECURSIVE process_children_from(_, _, _)
process_element(result, element) ==
    LET tag_name == element.tag IN
    CASE tag_name \in {"h1", "h2", "h3", "h4", "h5", "h6"} ->
            process_element_children(result \o <<"<", "b", ">">>, element)
                \o <<"<", "/", "b", ">", "nl", "nl">>
      [] tag_name = "p" ->
            process_element_children(result, element) \o <<"nl", "nl">>
      [] tag_name \in {"strong", "b"} ->
            process_element_children(result \o <<"<", "b", ">">>, element)
                \o <<"<", "/", "b", ">">>
      [] tag_name = "a" ->
            IF element.href # <<>>
            THEN process_element_children(
                     result \o <<"<", "a", " ", "h", "r", "e", "f", "=", "\"">>
                            \o element.href[1] \o <<"\"", ">">>,
                     element)
                 \o <<"<", "/", "a", ">">>
            ELSE process_element_children(result, element)
      [] tag_name = "br" -> result \o <<"nl">>
      [] tag_name \in {"html", "head", "meta", "title", "style", "script"} ->
            result
      [] OTHER ->
            LET walked == process_element_children(result, element) IN
            IF /\ tag_name \notin {"span", "a", "strong", "b", "i", "em"}
               /\ ~ends_with(walked, <<"nl", "nl">>)
               /\ walked # <<>>
            THEN walked \o <<"nl", "nl">>
            ELSE walked

process_children_from(result, children, i) ==
    IF i > Len(children) THEN result
    ELSE LET child == children[i]
             text == str_trim(child.text)
             next ==
                IF child.tag = "#text"
                THEN IF text # <<>>
                     THEN IF /\ result # <<>>
                             /\ ~ends_with(result, <<" ">>)
                             /\ ~ends_with(result, <<"nl">>)
                          THEN result \o <<" ">> \o text
                          ELSE result \o text
                     ELSE result
                ELSE process_element(result, child)
         IN process_children_from(next, children, i + 1)

process_element_children(result, element) ==
    process_children_from(result, element.children, 1)

\* transform_html on a parsed document, given by its body element (the
\* parser supplies a body to every document).
transform_html(body) ==
    replace(replace(process_element(<<>>, body),
                    <<"nl", "nl", "nl">>, <<"nl", "nl">>),
            <<" ", " ">>, <<" ">>)

\* The documents converted.  Text nodes: a word, a word with white space
\* before or after it, words one, two and three spaces apart, white space
\* alone (the line break between two elements of the file), a character
\* outside the basic plane and a text with a "<" in it (written &lt; in
\* the file, the parser hands the character itself to the conversion).
TextNodes ==
    {<<"x">>, <<"x", " ">>, <<" ", "x">>, <<"x", " ", "x">>,
     <<"x", " ", " ", "x">>, <<"x", " ", " ", " ", "x">>, <<"nl">>, <<"E">>,
     <<"x", "<", "x">>}

ElementTags == {"h1", "p", "div", "b", "a", "br", "span"}

Hrefs(tag) == IF tag = "a" THEN {<<>>, <<(<<"u">>)>>} ELSE {<<>>}

\* What the parser nests: a heading, a paragraph or an inline element holds
\* no heading, paragraph or div; a link holds no link.
may_contain(parent, tag) ==
    /\ parent \notin {"body", "div"} => tag \notin {"h1", "p", "div"}
    /\ parent = "a" => tag # "a"

\* Tree(parent, n): the nodes of n nodes in all that may be a child of
\* `parent`; Forest(parent, n): the child lists of n nodes in all.  The
\* parser joins neighbouring text nodes into one and br has no children.
RECURSIVE Tree(_, _)
RECURSIVE Forest(_, _)
Tree(parent, n) ==
    (IF n = 1 THEN {TextNode(t) : t \in TextNodes} ELSE {})
    \cup UNION {UNION {{Element(tag, href, f) : f \in Forest(tag, n - 1)} :
                       href \in Hrefs(tag)} :
                tag \in {t \in ElementTags : may_contain(parent, t)}}

Forest(parent, n) ==
    IF n = 0 THEN {<<>>}
    ELSE IF parent = "br" THEN {}
    ELSE UNION {UNION {{<<t>> \o f :
                           f \in {g \in Forest(parent, n - k) :
                                    ~(/\ g # <<>>
                                      /\ t.tag = "#text"
                                      /\ g[1].tag = "#text")}} :
                       t \in Tree(parent, k)} :
                k \in 1..n}

\* <html><body><h1>Title</h1><p>Hello <b>world</b></p></body></html>
ExampleDocument ==
    Element("body", <<>>,
        <<Element("h1", <<>>, <<TextNode(<<"T", "i", "t", "l", "e">>)>>),
          Element("p", <<>>,
              <<TextNode(<<"H", "e", "l", "l", "o", " ">>),
                Element("b", <<>>,
                    <<TextNode(<<"w", "o", "r", "l", "d">>)>>)>>)>>)

Documents ==
    {ExampleDocument}
    \cup UNION {{Element("body", <<>>, f) : f \in Forest("body", n)} :
                n \in 0..MaxNodes}


\* ------------------------------------------- publisher: length budget
\* char::to_lowercase on the letters of the model.
to_lowercase(s) ==
    [k \in 1..Len(s) |->
        CASE s[k] = "P" -> "p" [] s[k] = "B" -> "b" [] s[k] = "R" -> "r"
          [] OTHER -> s[k]]

\* str::starts_with.
starts_with(s, prefix) ==
    Len(s) >= Len(prefix) /\ SubSeq(s, 1, Len(prefix)) = prefix

\* The loop of strip_html_tags_to_text from character i on.
RECURSIVE strip_from(_, _, _, _, _, _)
strip_from(html, i, out, in_tag, last_was_space, tag_buf) ==
    IF i > Len(html) THEN out
    ELSE LET ch == html[i] IN
         IF in_tag
         THEN IF ch = ">"
              THEN LET tag == to_lowercase(str_trim(tag_buf)) IN
                   IF /\ \/ starts_with(tag, <<"b", "r">>)
                         \/ starts_with(tag, <<"/", "p">>)
                         \/ starts_with(tag, <<"p">>)
                      /\ ~last_was_space
                   THEN strip_from(html, i + 1, out \o <<" ">>, FALSE, TRUE, <<>>)
                   ELSE strip_from(html, i + 1, out, FALSE, last_was_space, <<>>)
              ELSE strip_from(html, i + 1, out, TRUE, last_was_space,
                              tag_buf \o <<ch>>)
         ELSE IF ch = "<"
         THEN IF ~last_was_space
              THEN strip_from(html, i + 1, out \o <<" ">>, TRUE, TRUE, tag_buf)
              ELSE strip_from(html, i + 1, out, TRUE, last_was_space, tag_buf)
         ELSE IF is_whitespace(ch)
         THEN IF ~last_was_space
              THEN strip_from(html, i + 1, out \o <<" ">>, in_tag, TRUE, tag_buf)
              ELSE strip_from(html, i + 1, out, in_tag, last_was_space, tag_buf)
         ELSE strip_from(html, i + 1, out \o <<ch>>, in_tag, FALSE, tag_buf)

\* strip_html_tags_to_text without the trim of its last line.
strip_html_tags_to_text_untrimmed(html) ==
    strip_from(html, 1, <<>>, FALSE, FALSE, <<>>)

strip_html_tags_to_text(html) ==
    str_trim(strip_from(html, 1, <<>>, FALSE, FALSE, <<>>))

\* The UTF-16 code units of one character: a surrogate pair for a
\* character outside the basic plane.
code_units(ch) == IF ch = "E" THEN <<"high", "low">> ELSE <<ch>>

RECURSIVE flatten(_)
flatten(parts) ==
    IF parts = <<>> THEN <<>> ELSE parts[1] \o flatten(Tail(parts))

\* Counting characters, not code units.
encode_utf16_one_unit_each(s) == s

\* str::encode_utf16.
encode_utf16(s) == flatten([k \in 1..Len(s) |-> code_units(s[k])])

telegram_text_len_utf16_after_entities_guess(html_text) ==
    LET plain == strip_html_tags_to_text(html_text)
    IN  Len(encode_utf16(plain))

\* The strings stripped: every string of up to MaxChars characters, and
\* the string of tests::strip_html_tags_basic,
\* <b>Hello</b> <a href="https://example.com">world</a><br>!
MarkupChars == {"<", ">", " ", "nl", "x", "E", "p"}

ExampleMarkup ==
    <<"<", "b", ">", "H", "e", "l", "l", "o", "<", "/", "b", ">", " ",
      "<", "a", " ", "h", "r", "e", "f", "=", "\"", "u", "\"", ">",
      "w", "o", "r", "l", "d", "<", "/", "a", ">", "<", "b", "r", ">", "!">>

\* Every content of up to MaxChars characters
Contents == UNION {[1..n -> MarkupChars] : n \in 0..MaxChars}

Markups == {ExampleMarkup} \cup Contents

\* What send_to_telegram appends to the content of publisher_<id>.html:
\* two newlines, a word, ": ", the date and the time, a newline and a link
\* to the url around two words.  Each word and each half of the date is
\* written as one character.
PublicationSuffix ==
    <<"nl", "nl", "O", ":", " ", "d", " ", "t", "nl",
      "<", "a", " ", "h", "r", "e", "f", "=", "\"", "u", "\"", ">",
      "R", " ", "o", "<", "/", "a", ">">>

\* The comparison of send_to_telegram taken for "at least the limit".
too_long_at_the_limit(content) ==
    telegram_text_len_utf16_after_entities_guess(content \o PublicationSuffix)
        >= TELEGRAM_SENDMESSAGE_TEXT_LIMIT_UTF16

\* send_to_telegram choosing the long form: the message measured is the
\* content with the date and the link appended.
too_long(content) ==
    LET approx_len_utf16 ==
            telegram_text_len_utf16_after_entities_guess(content \o PublicationSuffix)
    IN  approx_len_utf16 > TELEGRAM_SENDMESSAGE_TEXT_LIMIT_UTF16

\* ------------------------------------------------ publisher: long form
\* For the byte budget a string is the sequence of its UTF-8 bytes: "x"
\* and the characters of the marker are one byte each, "Y1" "Y2" are the
\* two bytes of one character and "E1" "E2" "E3" "E4" the four bytes of
\* another.
utf8_bytes(ch) ==
    CASE ch = "Y" -> <<"Y1", "Y2">>
      [] ch = "E" -> <<"E1", "E2", "E3", "E4">>
      [] OTHER -> <<ch>>

encode_utf8(text) == flatten([k \in 1..Len(text) |-> utf8_bytes(text[k])])

\* str::chars: the characters of a string, each as its bytes.
RECURSIVE chars(_)
chars(s) ==
    IF s = <<>> THEN <<>>
    ELSE LET width == CASE s[1] = "Y1" -> 2 [] s[1] = "E1" -> 4 [] OTHER -> 1
             here == IF width <= Len(s) THEN width ELSE Len(s)
         IN  <<SubSeq(s, 1, here)>> \o chars(SubSeq(s, here + 1, Len(s)))

\* "\n\n[truncated]"
TruncationSuffix ==
    <<"nl", "nl", "[", "t", "r", "u", "n", "c", "a", "t", "e", "d", "]">>

saturating_sub(a, b) == IF a >= b THEN a - b ELSE 0

\* The loop of truncate_to_max_bytes_utf8 from character i on.
RECURSIVE truncate_from(_, _, _, _)
truncate_from(characters, i, out, budget) ==
    IF i > Len(characters) THEN out
    ELSE IF Len(out) + Len(characters[i]) > budget THEN out
    ELSE truncate_from(characters, i + 1, out \o characters[i], budget)

\* The cut made after `budget` bytes, whatever stands there.
truncate_to_max_bytes_at_any_byte(s, max_bytes) ==
    IF Len(s) <= max_bytes THEN s
    ELSE SubSeq(s, 1, saturating_sub(max_bytes, Len(TruncationSuffix)))
            \o TruncationSuffix

truncate_to_max_bytes_utf8(s, max_bytes) ==
    IF Len(s) <= max_bytes THEN s
    ELSE LET suffix == TruncationSuffix
             budget == saturating_sub(max_bytes, Len(suffix))
         IN  truncate_from(chars(s), 1, <<>>, budget) \o suffix

\* The calls checked: every string of up to MaxChars characters of one,
\* two and four bytes, against every budget from one byte less than the
\* marker to MaxChars bytes more.
TruncateCalls ==
    [s : {encode_utf8(text) :
            text \in UNION {[1..n -> {"x", "Y", "E"}] : n \in 0..MaxChars}},
     max_bytes : (Len(TruncationSuffix) - 1)..(Len(TruncationSuffix) + MaxChars)]

\* The nodes of a telegra.ph page and of the document they are made from:
\* a text node or an element (tag, attributes, children).  The attributes
\* of a parsed element are a list of <<name, value>> pairs; those of a
\* page element and its children are Option values.
PageNode(tag, attrs, text, children) ==
    [tag |-> tag, attrs |-> attrs, text |-> text, children |-> children]

TelegraphAllowedTags ==
    {"a", "aside", "b", "blockquote", "br", "code", "em", "figcaption",
     "figure", "h3", "h4", "hr", "i", "iframe", "img", "li", "ol", "p", "pre",
     "s", "strong", "u", "ul", "video"}

RECURSIVE telegraph_node_from_element(_)
RECURSIVE telegraph_nodes_from(_, _, _, _)

\* The loop of telegraph_nodes_from_children from child i on.
telegraph_nodes_from(children, i, out, last_was_space) ==
    IF i > Len(children) THEN out
    ELSE LET child == children[i] IN
         IF child.tag = "#text"
         THEN LET raw == child.text IN
              IF raw = <<>>
              THEN telegraph_nodes_from(children, i + 1, out, last_was_space)
              ELSE IF str_trim(raw) = <<>>
              THEN IF out # <<>> /\ ~last_was_space
                   THEN telegraph_nodes_from(children, i + 1,
                            Append(out, PageNode("#text", <<>>, <<" ">>, <<>>)), TRUE)
                   ELSE telegraph_nodes_from(children, i + 1, out, last_was_space)
              ELSE telegraph_nodes_from(children, i + 1,
                       Append(out, PageNode("#text", <<>>, raw, <<>>)),
                       is_whitespace(raw[Len(raw)]))
         ELSE LET node == telegraph_node_from_element(child) IN
              IF node # <<>>
              THEN telegraph_nodes_from(children, i + 1, Append(out, node[1]), FALSE)
              ELSE telegraph_nodes_from(children, i + 1, out, last_was_space)

telegraph_nodes_from_children(element) ==
    telegraph_nodes_from(element.children, 1, <<>>, TRUE)

\* The attributes of the page element: None, or the map of the href and
\* src attributes of the parsed one.
kept_attrs(attrs) ==
    LET names == {attrs[k][1] : k \in 1..Len(attrs)} \cap {"href", "src"}
    IN  IF names = {} THEN <<>>
        ELSE <<[name \in names |->
                  attrs[CHOOSE k \in 1..Len(attrs) :
                           /\ attrs[k][1] = name
                           /\ \A j \in 1..Len(attrs) : attrs[j][1] = name => j <= k][2]]>>

\* telegraph_node_from_element copying every attribute.
telegraph_node_from_element_with_all_attrs(element) ==
    LET tag == element.tag
        converted == telegraph_nodes_from_children(element)
    IN  IF tag \notin TelegraphAllowedTags
        THEN IF converted = <<>> THEN <<>>
             ELSE <<PageNode("p", <<>>, <<>>, <<converted>>)>>
        ELSE <<PageNode(tag,
                   IF element.attrs = <<>> THEN <<>>
                   ELSE <<[name \in {element.attrs[k][1] : k \in 1..Len(element.attrs)} |->
                             "u"]>>,
                   <<>>,
                   IF converted = <<>> THEN <<>> ELSE <<converted>>)>>

\* Option values: <<>> is None, <<node>> is Some(node).
telegraph_node_from_element(element) ==
    LET tag == element.tag
        converted == telegraph_nodes_from_children(element)
    IN  IF tag \notin TelegraphAllowedTags
        THEN IF converted = <<>> THEN <<>>
             ELSE <<PageNode("p", <<>>, <<>>, <<converted>>)>>
        ELSE <<PageNode(tag, kept_attrs(element.attrs), <<>>,
                   IF converted = <<>> THEN <<>> ELSE <<converted>>)>>

\* The documents made into pages: elements on and off the list, with and
\* without attributes on and off the list, text and white space alone.
PageTags == {"p", "a", "img", "div"}

AttrLists ==
    {<<>>, <<(<<"class", "u">>), <<"href", "u">>>>,
     <<(<<"src", "u">>), <<"onclick", "u">>>>}

PageTexts == {<<"x">>, <<" ">>}

RECURSIVE PageTree(_, _)
RECURSIVE PageForest(_, _)
PageTree(parent, n) ==
    (IF n = 1 THEN {PageNode("#text", <<>>, t, <<>>) : t \in PageTexts} ELSE {})
    \cup UNION {UNION {{PageNode(tag, attrs, <<>>, f) : f \in PageForest(tag, n - 1)} :
                       attrs \in AttrLists} :
                tag \in {t \in PageTags : may_contain(parent, t)}}

PageForest(parent, n) ==
    IF n = 0 THEN {<<>>}
    ELSE IF parent = "img" THEN {}
    ELSE UNION {UNION {{<<t>> \o f :
                           f \in {g \in PageForest(parent, n - k) :
                                    ~(/\ g # <<>>
                                      /\ t.tag = "#text"
                                      /\ g[1].tag = "#text")}} :
                       t \in PageTree(parent, k)} :
                k \in 1..n}

PageDocuments ==
    UNION {{PageNode("body", <<>>, <<>>, f) : f \in PageForest("body", n)} :
           n \in 0..MaxNodes}

\* str::split("\n\n"): the pieces between the double newlines, from the
\* left.
RECURSIVE split_paragraphs(_)
split_paragraphs(s) ==
    LET at == {k \in 1..(Len(s) - 1) : s[k] = "nl" /\ s[k + 1] = "nl"} IN
    IF at = {} THEN <<s>>
    ELSE LET k == CHOOSE k \in at : \A j \in at : k <= j
         IN  <<SubSeq(s, 1, k - 1)>> \o split_paragraphs(SubSeq(s, k + 2, Len(s)))

\* What the parser makes of "<p>" + para.replace('\n', "<br>") + "</p>" for a
\* paragraph without markup characters: the children of the p element are
\* the lines as text nodes with a br element at every newline.
RECURSIVE paragraph_children(_)
paragraph_children(para) ==
    LET at == {k \in 1..Len(para) : para[k] = "nl"} IN
    IF at = {}
    THEN IF para = <<>> THEN <<>> ELSE <<PageNode("#text", <<>>, para, <<>>)>>
    ELSE LET k == CHOOSE k \in at : \A j \in at : k <= j
             line == SubSeq(para, 1, k - 1)
         IN  (IF line = <<>> THEN <<>> ELSE <<PageNode("#text", <<>>, line, <<>>)>>)
                \o <<PageNode("br", <<>>, <<>>, <<>>)>>
                \o paragraph_children(SubSeq(para, k + 1, Len(para)))

\* The loop that builds body_html, from piece i (counted from 0) on, as
\* the parsed children of body: a newline text node before every kept
\* paragraph but one at i = 0, and the p element.
RECURSIVE body_children(_, _)
body_children(paras, i) ==
    IF i >= Len(paras) THEN <<>>
    ELSE LET para == str_trim(paras[i + 1]) IN
         IF para = <<>> THEN body_children(paras, i + 1)
         ELSE (IF i > 0 THEN <<PageNode("#text", <<>>, <<"nl">>, <<>>)>> ELSE <<>>)
                 \o <<PageNode("p", <<>>, <<>>, paragraph_children(para))>>
                 \o body_children(paras, i + 1)

build_telegraph_nodes_from_html_message(html_message) ==
    telegraph_nodes_from_children(
        PageNode("body", <<>>, <<>>, body_children(split_paragraphs(html_message), 0)))

\* The bytes of the names the serializer writes.
name_bytes(name) ==
    CASE name = "p" -> <<"p">>
      [] name = "br" -> <<"b", "r">>
      [] name = "tag" -> <<"t", "a", "g">>
      [] name = "attrs" -> <<"a", "t", "t", "r", "s">>
      [] name = "children" -> <<"c", "h", "i", "l", "d", "r", "e", "n">>
      [] name = "href" -> <<"h", "r", "e", "f">>
      [] name = "src" -> <<"s", "r", "c">>

\* A JSON string: quotes around the bytes, with a backslash before a quote
\* and a backslash and \n for a newline; bytes of longer characters as they
\* are.
json_escape(byte) ==
    CASE byte = "\"" -> <<"\\", "\"">>
      [] byte = "\\" -> <<"\\", "\\">>
      [] byte = "nl" -> <<"\\", "n">>
      [] OTHER -> <<byte>>

json_string(bytes) ==
    <<"\"">> \o flatten([k \in 1..Len(bytes) |-> json_escape(bytes[k])]) \o <<"\"">>

RECURSIVE join(_, _)
join(parts, separator) ==
    IF parts = <<>> THEN <<>>
    ELSE IF Len(parts) = 1 THEN parts[1]
    ELSE parts[1] \o separator \o join(Tail(parts), separator)

\* The attrs map as a JSON object (serde writes the entries in the order
\* the map iterates them; the bytes written are the same in number).
json_attrs(map) ==
    LET names == SelectSeq(<<"href", "src">>, LAMBDA name : name \in DOMAIN map) IN
    <<"{">>
        \o join([k \in 1..Len(names) |->
                    json_string(name_bytes(names[k])) \o <<":">>
                        \o json_string(<<map[names[k]]>>)], <<",">>)
        \o <<"}">>

\* serde_json::to_string of the nodes: a text node is a JSON string
\* (untagged), an element an object with "tag" and, when they are Some,
\* "attrs" and "children".
RECURSIVE to_string(_)
to_string(nodes) ==
    <<"[">>
        \o join([k \in 1..Len(nodes) |->
                    LET node == nodes[k] IN
                    IF node.tag = "#text" THEN json_string(node.text)
                    ELSE <<"{">>
                           \o json_string(name_bytes("tag")) \o <<":">>
                           \o json_string(name_bytes(node.tag))
                           \o (IF node.attrs = <<>> THEN <<>>
                               ELSE <<",">> \o json_string(name_bytes("attrs")) \o <<":">>
                                       \o json_attrs(node.attrs[1]))
                           \o (IF node.children = <<>> THEN <<>>
                               ELSE <<",">> \o json_string(name_bytes("children")) \o <<":">>
                                       \o to_string(node.children[1]))
                           \o <<"}">>], <<",">>)
        \o <<"]">>

\* The content field publish_to_telegraph posts to createPage for a
\* message: the message cut to the limit, made into nodes, serialized.
content_json(html_message) ==
    LET safe_html_message ==
            truncate_to_max_bytes_utf8(html_message, TELEGRAPH_CREATEPAGE_CONTENT_LIMIT_BYTES)
        nodes == build_telegraph_nodes_from_html_message(safe_html_message)
    IN  to_string(nodes)

\* The messages posted: every text of up to MaxChars characters (letters of
\* one and two bytes, spaces, newlines, quotes), and up to two of those
\* characters followed by a run of letters up to a little over the limit.
Messages ==
    LET Chars == {"x", "Y", " ", "nl", "\""}
        Short(m) == UNION {[1..n -> Chars] : n \in 0..m}
    IN  Short(MaxChars)
            \cup {head \o [k \in 1..n |-> "x"] :
                      head \in Short(2),
                      n \in 10..(TELEGRAPH_CREATEPAGE_CONTENT_LIMIT_BYTES + 2)}

\* What the outside gives one call of send_to_telegram: whether its own
\* preparation works (environment variables, reading publisher_<id>.html
\* back), how telegra.ph answers createPage and how Telegram answers
\* sendMessage.  "too_many_requests": the error text of the failure holds
\* "Too Many Requests" (HTTP 429); "error": any other failure.
ApiAnswers == {"ok", "too_many_requests", "error"}

\* The "retry_after" number of an error text: none (<<>>) or one value.
RetryAfters == {<<>>} \cup {<<n>> : n \in 0..MaxRetryAfter}

SendResponses ==
    [prepared : BOOLEAN, telegraph : ApiAnswers, telegram : ApiAnswers,
     retry_after : RetryAfters]

\* The seconds run_publisher waits when the error text names none.
DefaultRetrySeconds == 60

\* extract_retry_after on the error text of a failed call, with the default
\* of run_publisher.
retry_seconds(r) ==
    IF r.retry_after = <<>> THEN DefaultRetrySeconds ELSE r.retry_after[1]

SendResult(ok, rate_limited, at, pages, text) ==
    [ok |-> ok, rate_limited |-> rate_limited, at |-> at, pages |-> pages, text |-> text]

\* send_to_telegram going on to sendMessage with the full text when
\* telegra.ph gave no page.
send_to_telegram_after_failed_page(long, r) ==
    IF ~r.prepared THEN SendResult(FALSE, FALSE, "prepare", 0, "none")
    ELSE IF long
    THEN IF r.telegraph # "ok"
         THEN SendResult(r.telegram = "ok", r.telegram = "too_many_requests",
                         "telegram", 0, "full")
         ELSE SendResult(r.telegram = "ok", r.telegram = "too_many_requests",
                         "telegram", 1, "fallback")
    ELSE SendResult(r.telegram = "ok", r.telegram = "too_many_requests",
                    "telegram", 0, "full")

\* send_to_telegram.  `long`: the stripped message is longer than the
\* limit of sendMessage.  The result: Ok or Err, whether the error text
\* holds "Too Many Requests", the step the call ended at, the number of
\* telegra.ph pages created and the text handed to sendMessage ("none": no
\* sendMessage request made).
send_to_telegram(long, r) ==
    IF ~r.prepared THEN SendResult(FALSE, FALSE, "prepare", 0, "none")
    ELSE IF long
    THEN IF r.telegraph # "ok"
         THEN SendResult(FALSE, r.telegraph = "too_many_requests", "telegraph", 0, "none")
         ELSE SendResult(r.telegram = "ok", r.telegram = "too_many_requests",
                         "telegram", 1, "fallback")
    ELSE SendResult(r.telegram = "ok", r.telegram = "too_many_requests",
                    "telegram", 0, "full")

\* run_publisher going on to send_to_telegram whatever process_html_file
\* returned.
publish_item_ignores_conversion(input, io, long, first, second) ==
    LET a == send_to_telegram(long, first) IN
    [converted |-> process_html_file(input, io), calls |-> <<a>>, slept |-> <<>>,
     next |-> IF a.ok THEN "published" ELSE "publish_error",
     accepted |-> IF a.ok THEN 1 ELSE 0]

\* run_publisher calling send_to_telegram again after any failure.
publish_item_retries_any_failure(input, io, long, first, second) ==
    LET a == send_to_telegram(long, first)
        b == send_to_telegram(long, second)
    IN  IF ~process_html_file(input, io)
        THEN [converted |-> FALSE, calls |-> <<>>, slept |-> <<>>,
              next |-> "publish_error", accepted |-> 0]
        ELSE IF a.ok
        THEN [converted |-> TRUE, calls |-> <<a>>, slept |-> <<>>,
              next |-> "published", accepted |-> 1]
        ELSE [converted |-> TRUE, calls |-> <<a, b>>,
              slept |-> <<retry_seconds(first)>>,
              next |-> IF b.ok THEN "published" ELSE "publish_error",
              accepted |-> IF b.ok THEN 1 ELSE 0]

\* One item of the loop of run_publisher up to its update_status call:
\* whether process_html_file returned Ok, the results of the
\* send_to_telegram calls made, in order, the status to set and the number
\* of sends Telegram accepted.
publish_item(input, io, long, first, second) ==
    IF ~process_html_file(input, io)
    THEN [converted |-> FALSE, calls |-> <<>>, slept |-> <<>>,
          next |-> "publish_error", accepted |-> 0]
    ELSE LET a == send_to_telegram(long, first)
             b == send_to_telegram(long, second)
         IN  IF a.ok
             THEN [converted |-> TRUE, calls |-> <<a>>, slept |-> <<>>,
                   next |-> "published", accepted |-> 1]
             ELSE IF a.rate_limited
             THEN [converted |-> TRUE, calls |-> <<a, b>>,
                   slept |-> <<retry_seconds(first)>>,
                   next |-> IF b.ok THEN "published" ELSE "publish_error",
                   accepted |-> IF b.ok THEN 1 ELSE 0]
             ELSE [converted |-> TRUE, calls |-> <<a>>, slept |-> <<>>,
                   next |-> "publish_error", accepted |-> 0]

\* -------------------------------------------------------------------- state
VARIABLES
    news,         \* the table: id -> [title, url, date, status]
    files,        \* the data directory: <<name, id>> -> FileStates
    pc,           \* per worker: where its main loop stands
    queue,        \* per worker: the fetched items not yet finished
    lostAttempts, \* history, per AI stage and id: attempts that left no status
    failCommits,  \* history, per AI stage and id: failure statuses written
    sent,         \* history, per id: sends Telegram accepted
    sendCalls,    \* history: send_to_telegram calls of the publisher's latest pass
    arg,          \* the input of a function checked on its own
    result        \* <<>>, or <<v>> with v the value the function returned for arg

vars == <<news, files, pc, queue, failCommits, lostAttempts, sent, sendCalls, arg, result>>

Statuses ==
    {"new", "downloaded", "scraper", "translated",
     "rewriter", "rewriter_retry", "rewriter_error",
     "illustrator", "illustrator_retry", "illustrator_error",
     "published", "publish_error"}

TypeOK ==
    /\ DOMAIN news \subseteq Ids
    /\ \A i \in DOMAIN news : news[i].status \in Statuses
    /\ \A f \in FileNames \X Ids : files[f] \in FileStates
    /\ \A s \in Stages :
          /\ pc[s] \in {"poll", "process", "exited"}
          /\ pc[s] = "process" <=> queue[s] # <<>>
          /\ \A k \in 1..Len(queue[s]) :
                queue[s][k].id \in DOMAIN news /\ queue[s][k].status \in InputStatuses(s)

\* The pipeline at its start.
PipelineInit ==
    /\ news = [i \in {} |-> 0]
    /\ files = [f \in FileNames \X Ids |-> "absent"]
    /\ pc = [s \in Stages |-> "poll"]
    /\ queue = [s \in Stages |-> <<>>]
    /\ lostAttempts = [s \in AIStages |-> [i \in Ids |-> 0]]
    /\ failCommits = [s \in AIStages |-> [i \in Ids |-> 0]]
    /\ sent = [i \in Ids |-> 0]
    /\ sendCalls = 0

Init ==
    /\ PipelineInit
    /\ arg = <<>>
    /\ result = <<>>

\* --------------------------------------------------------------- parser-feed1
\* run_parser on one fetched page.  Every store call can fail and end the
\* run (`?`): the run stores the new items among the first n and stops.
RunParser ==
    /\ \E page \in FeedPages : \E n \in 0..Len(page) :
            news' = parser_store(news, fetch_news(page), n)
    /\ UNCHANGED <<files, pc, queue, failCommits, lostAttempts, sent, sendCalls, arg, result>>

\* ------------------------------------------------------------- stage runner
\* The head of the worker's list is done: on to the next one, or the cycle
\* ends (run_* returns Ok; main sleeps and calls run_* again).
Continue(s) ==
    /\ queue' = [queue EXCEPT ![s] = Tail(queue[s])]
    /\ pc' = [pc EXCEPT ![s] = IF Tail(queue[s]) = <<>> THEN "poll" ELSE "process"]

\* A `?` inside run_* returned Err, or the process died and was started
\* again: the cycle ends where it stands and the fetched list is gone; the
\* next thing the worker does is a new cycle.
Abort(s) ==
    /\ queue' = [queue EXCEPT ![s] = <<>>]
    /\ pc' = [pc EXCEPT ![s] = "poll"]

\* The rest of the loop body once the next status is picked: update_status
\* and the log lines around it.  The UPDATE runs, and a failed log line
\* after it can still end the cycle; or the UPDATE does not run (it fails,
\* a log line before it fails, or the process dies before it) and the cycle
\* ends with the stored status as it was.  `history`: the kinds of
\* history variables the step is recorded in; with "commits" in it every
\* update_status call is reached and commits.
Update(s, id, next, history) ==
    LET recorded == "attempts" \in history /\ s \in AIStages IN
    \/ /\ news' = update_status(news, id, next)
       /\ failCommits' = IF recorded /\ next # s
                          THEN [failCommits EXCEPT ![s][id] = @ + 1]
                          ELSE failCommits
       /\ UNCHANGED lostAttempts
       /\ Continue(s) \/ Abort(s)
    \/ /\ "commits" \notin history
       /\ recorded => lostAttempts[s][id] < MaxLost
       /\ lostAttempts' = IF recorded
                           THEN [lostAttempts EXCEPT ![s][id] = @ + 1]
                           ELSE lostAttempts
       /\ UNCHANGED <<news, failCommits>>
       /\ Abort(s)

\* The Err arm with a status written for the failed item.
Skip_sets_status(s) ==
    /\ news' = update_status(news, Head(queue[s]).id, "error")
    /\ UNCHANGED <<failCommits, lostAttempts>>
    /\ Continue(s) \/ Abort(s)

\* The Err arm of downloader and scraper: the error is logged and the
\* loop goes on; a failed log line ends the cycle.
Skip(s) ==
    /\ UNCHANGED <<news, failCommits, lostAttempts>>
    /\ Continue(s) \/ Abort(s)

\* The top of run_*: log, fetch the items to handle, log their number.  A
\* failed log line or query ends the cycle with nothing fetched.
Poll(s) ==
    /\ pc[s] = "poll"
    /\ \E q \in fetch(s, news) :
          /\ q # <<>>
          /\ queue' = [queue EXCEPT ![s] = news_items(news, q)]
          /\ pc' = [pc EXCEPT ![s] = "process"]
    /\ UNCHANGED <<news, files, failCommits, lostAttempts, sent, sendCalls, arg, result>>

\* One pass of the loop of run_downloader.
DownloaderProcess(history) ==
    LET s == "downloader"
        item == Head(queue[s])
        f == <<"news", item.id>>
    IN  /\ pc[s] = "process"
        /\ \E r \in {download_news_item(resp, files[f]) : resp \in DownloadResponses} :
              /\ files' = [files EXCEPT ![f] = r.file]
              /\ IF r.ok
                 THEN Update(s, item.id, "downloaded", history)
                 ELSE Skip(s)
        /\ UNCHANGED <<sent, sendCalls, arg, result>>

\* One pass of the loop of run_scraper.
ScraperProcess(history) ==
    LET s == "scraper"
        item == Head(queue[s])
        f == <<"scraper", item.id>>
    IN  /\ pc[s] = "process"
        /\ \E r \in {scraper_process_news_item(files[<<"news", item.id>>], io, files[f]) :
                        io \in ScrapeResults} :
              /\ files' = [files EXCEPT ![f] = r.file]
              /\ IF r.ok
                 THEN Update(s, item.id, "scraper", history)
                 ELSE Skip(s)
        /\ UNCHANGED <<sent, sendCalls, arg, result>>

\* The results process_news_item of the rewriter can return, by the state
\* of its input file and of its output file.
rewriter_results_by_files ==
    [input \in FileStates, old \in FileStates |->
        {rewriter_process_news_item(input, resp, io, old) :
            resp \in ChatResponses, io \in StageIo}]

\* The results process_news_item of the rewriter can return for an item.
rewriter_results(item) ==
    rewriter_results_by_files[files[<<"translator", item.id>>], files[<<"rewriter", item.id>>]]

\* One pass of the loop of run_rewriter.
RewriterProcess(history) ==
    LET s == "rewriter"
        item == Head(queue[s])
    IN  /\ pc[s] = "process"
        /\ \E r \in rewriter_results(item) :
              /\ files' = [files EXCEPT ![<<"rewriter", item.id>>] = r.file]
              /\ Update(s, item.id,
                        rewriter_next_status(r.ok, r.finish_reason, item.status), history)
        /\ UNCHANGED <<sent, sendCalls, arg, result>>

\* The results process_news_item of the illustrator can return, by the
\* state of its input file and of its output file.
illustrator_results_by_files ==
    [input \in FileStates, old \in FileStates |->
        {illustrator_process_news_item(input, provider_type, resp, io, old) :
            provider_type \in ProviderTypes, resp \in ImageResponses, io \in StageIo}]

\* The results process_news_item of the illustrator can return for an item,
\* under either AI_PROVIDER_ILLUSTRATOR_TYPE the worker can be started with.
illustrator_results(item) ==
    illustrator_results_by_files[files[<<"rewriter", item.id>>], files[<<"illustrator", item.id>>]]

\* One pass of the loop of run_illustrator.
IllustratorProcess(history) ==
    LET s == "illustrator"
        item == Head(queue[s])
    IN  /\ pc[s] = "process"
        /\ \E r \in illustrator_results(item) :
              /\ files' = [files EXCEPT ![<<"illustrator", item.id>>] = r.file]
              /\ Update(s, item.id,
                        illustrator_next_status(r.ok, r.finish_reason, item.status), history)
        /\ UNCHANGED <<sent, sendCalls, arg, result>>

\* What one pass of the loop of run_publisher can come to, by the state of
\* its input file.
publisher_results_by_file ==
    [input \in FileStates |->
        {publish_item(input, io, long, first, second) :
            io \in StageIo, long \in BOOLEAN,
            first \in SendResponses, second \in SendResponses}]

\* What one pass of the loop of run_publisher can come to for an item.
publisher_results(item) ==
    publisher_results_by_file[files[<<"translator", item.id>>]]

\* The status, the accepted sends and the number of publish calls of those
\* results.
publisher_outcomes_by_file ==
    [input \in FileStates |->
        {[next |-> x.next, accepted |-> x.accepted, calls |-> Len(x.calls)] :
            x \in publisher_results_by_file[input]}]

\* One pass of the loop of run_publisher.
PublisherProcess(history) ==
    LET s == "publisher"
        item == Head(queue[s])
    IN  /\ pc[s] = "process"
        /\ sent[item.id] < MaxSends
        /\ \E r \in publisher_outcomes_by_file[files[<<"translator", item.id>>]] :
              /\ sent' = IF "sends" \in history THEN [sent EXCEPT ![item.id] = @ + r.accepted] ELSE sent
              /\ sendCalls' = IF "sends" \in history THEN r.calls ELSE sendCalls
              /\ Update(s, item.id, r.next, history)
        /\ UNCHANGED <<files, arg, result>>

\* The worker process dies between two passes of its loop and is started
\* again: what it held in memory is lost, the table and the data directory
\* stay.
Crash(s) ==
    /\ pc[s] = "process"
    /\ Abort(s)
    /\ UNCHANGED <<news, files, failCommits, lostAttempts, sent, sendCalls, arg, result>>

\* main of downloader, scraper and publisher returns when a log line of its
\* loop fails (`log(...)?`); main of rewriter and illustrator drops the
\* result of write_log.
log_error_ends_main(s) == s \in {"downloader", "scraper", "publisher"}

\* Between two cycles: a log line of the loop of main fails.
MainLogFails(s) ==
    /\ pc[s] = "poll"
    /\ log_error_ends_main(s)
    /\ pc' = [pc EXCEPT ![s] = "exited"]
    /\ UNCHANGED <<news, files, queue, failCommits, lostAttempts, sent, sendCalls, arg, result>>

\* The translation worker: takes what the scraper finished to "translated"
\* after writing data/translator_<id>.html.
Translate ==
    /\ \E i \in DOMAIN news :
          /\ news[i].status = "scraper"
          /\ files' = [files EXCEPT ![<<"translator", i>>] = "data"]
          /\ news' = update_status(news, i, "translated")
    /\ UNCHANGED <<pc, queue, failCommits, lostAttempts, sent, sendCalls, arg, result>>

\* One step of one worker.
Step(history) ==
    \/ RunParser
    \/ Translate
    \/ DownloaderProcess(history)
    \/ ScraperProcess(history)
    \/ RewriterProcess(history)
    \/ IllustratorProcess(history)
    \/ PublisherProcess(history)
    \/ \E s \in Stages : Poll(s)

Next == Step({}) \/ \E s \in Stages : Crash(s)

Spec == Init /\ [][Next]_vars

\* The same steps with the history variables recorded.
NextAttempts == Step({"attempts"}) \/ \E s \in Stages : Crash(s)

SpecAttempts == Init /\ [][NextAttempts]_vars

NextSends == Step({"sends"}) \/ \E s \in Stages : Crash(s)

SpecSends == Init /\ [][NextSends]_vars

\* The workers left to their own error handling: no process dies from
\* outside, and the log lines of the loop of main can fail.
NextMain == Step({}) \/ \E s \in Stages : MainLogFails(s)

SpecMain == Init /\ [][NextMain]_vars

\* Every worker keeps running: main sleeps and calls run_* again for ever,
\* the loop of run_* goes from one item to the next, and every call
\* returns.  No process dies and no loop of main is left.
Fairness ==
    /\ \A s \in Stages : WF_vars(Poll(s))
    /\ WF_vars(DownloaderProcess({}))
    /\ WF_vars(ScraperProcess({}))
    /\ WF_vars(RewriterProcess({}))
    /\ WF_vars(IllustratorProcess({}))
    /\ WF_vars(PublisherProcess({}))
    /\ WF_vars(Translate)

NextFair == Step({})

SpecFair == Init /\ [][NextFair]_vars /\ Fairness

\* The same with every status update committing: the workers poll for
\* ever, every call of a provider returns and every update_status call is
\* made and succeeds.
FairnessCommits ==
    /\ \A s \in Stages : WF_vars(Poll(s))
    /\ WF_vars(DownloaderProcess({"commits"}))
    /\ WF_vars(ScraperProcess({"commits"}))
    /\ WF_vars(RewriterProcess({"commits"}))
    /\ WF_vars(IllustratorProcess({"commits"}))
    /\ WF_vars(PublisherProcess({"commits"}))
    /\ WF_vars(Translate)

NextCommits == Step({"commits"})

SpecCommits == Init /\ [][NextCommits]_vars /\ FairnessCommits

\* ----------------------------------------------- functions checked on their own
\* A function of the workers applied once to the input drawn at the start;
\* the pipeline stands still.
Apply(value) ==
    /\ result = <<>>
    /\ result' = <<value>>
    /\ UNCHANGED <<news, files, pc, queue, failCommits, lostAttempts, sent, sendCalls, arg>>

InitOn(inputs) ==
    /\ PipelineInit
    /\ arg \in inputs
    /\ result = <<>>

\* The effort of the request for every provider type and every pair of
\* values of the two reasoning variables.
NextEffort ==
    Apply(request_effort(arg.provider_type,
                         read_ai_provider_reasoning_from_env(arg.enabled, arg.effort)))

SpecEffort == InitOn(ReasoningEnvs) /\ [][NextEffort]_vars

\* post_process_html_response on every answer of up to MaxText pieces.
NextExtract == Apply(post_process_html_response(arg))

SpecExtract == InitOn(Texts) /\ [][NextExtract]_vars

\* transform_html on one parsed document.
NextConvert == Apply(transform_html(arg))

SpecConvert == InitOn(Documents) /\ [][NextConvert]_vars

\* strip_html_tags_to_text on one string.
NextStrip == Apply(strip_html_tags_to_text(arg))

SpecStrip == InitOn(Markups) /\ [][NextStrip]_vars

\* telegram_text_len_utf16_after_entities_guess on one string.
NextLength == Apply(telegram_text_len_utf16_after_entities_guess(arg))

SpecLength == InitOn(Markups) /\ [][NextLength]_vars

\* send_to_telegram on one converted content, the outside answering in
\* any way.
NextForm ==
    \E r \in SendResponses : Apply(send_to_telegram(too_long(arg), r))

SpecForm == InitOn(Contents) /\ [][NextForm]_vars

\* The conversion of one parsed document followed by the stripping of
\* its markup.
NextRoundTrip == Apply(strip_html_tags_to_text(transform_html(arg)))

SpecRoundTrip == InitOn(Documents) /\ [][NextRoundTrip]_vars

\* truncate_to_max_bytes_utf8 on one string and one budget.
NextTruncate == Apply(truncate_to_max_bytes_utf8(arg.s, arg.max_bytes))

SpecTruncate == InitOn(TruncateCalls) /\ [][NextTruncate]_vars

\* telegraph_nodes_from_children on the body of one parsed document.
NextPage == Apply(telegraph_nodes_from_children(arg))

SpecPage == InitOn(PageDocuments) /\ [][NextPage]_vars

\* publish_to_telegraph up to the request, on a message.
NextPublish == Apply(content_json(encode_utf8(arg)))

SpecPublish == InitOn(Messages) /\ [][NextPublish]_vars

\* The news table run_parser can find: for any of the URLs a row stored
\* from a headline of the feed, at any status a worker has moved it to.
StoredTables ==
    UNION {{t \in [{generate_id(u) : u \in known} ->
                     [title : Urls, url : Urls, date : DateTexts, status : Statuses]] :
               \A u \in known :
                  \E e \in FeedEntries :
                     /\ e.url = u
                     /\ t[generate_id(u)].title = e.title
                     /\ t[generate_id(u)].url = e.url
                     /\ t[generate_id(u)].date = e.date} :
           known \in SUBSET Urls}

\* run_parser on a table and a page of up to MaxFeed + 1 headlines (the
\* same headline can stand on the page twice); a failing store call ends
\* the run after n items.
NextIngest ==
    \E n \in 0..Len(arg.page) :
        Apply(parser_store(arg.table, fetch_news(arg.page), n))

SpecIngest ==
    /\ InitOn([table : StoredTables,
               page : UNION {[1..n -> FeedEntries] : n \in 1..(MaxFeed + 1)}])
    /\ [][NextIngest]_vars

\* ------------------------------------------------------------------- claims
ClaimedIds(s) == {queue[s][k].id : k \in 1..Len(queue[s])}

RetryStatus(s) == IF s = "rewriter" THEN "rewriter_retry" ELSE "illustrator_retry"
ErrorStatus(s) == IF s = "rewriter" THEN "rewriter_error" ELSE "illustrator_error"

\* The stage graph of the specification; "scraper" is the status the
\* scraper sets on success.
StageGraph ==
    {<<"new", "downloaded">>, <<"downloaded", "scraper">>, <<"scraper", "translated">>,
     <<"translated", "rewriter">>, <<"translated", "rewriter_retry">>,
     <<"rewriter_retry", "rewriter">>, <<"rewriter_retry", "rewriter_error">>,
     <<"rewriter", "illustrator">>, <<"rewriter", "illustrator_retry">>,
     <<"illustrator_retry", "illustrator">>, <<"illustrator_retry", "illustrator_error">>,
     <<"illustrator", "published">>, <<"illustrator", "publish_error">>}

\* C1: every change of an item's status is an edge of the stage graph: no
\* status moves backward and none skips a stage.
C1_StatusFollowsStageGraph ==
    [][\A i \in DOMAIN news :
          /\ i \in DOMAIN news'
          /\ news'[i].status # news[i].status
                => <<news[i].status, news'[i].status>> \in StageGraph]_vars

\* C2: no item is held (fetched and not yet finished) by two different
\* stages at the same time.
C2_NoItemHeldByTwoStages ==
    \A s, t \in Stages : s # t => ClaimedIds(s) \cap ClaimedIds(t) = {}

TerminalStatuses == {"published", "publish_error", "rewriter_error", "illustrator_error"}

\* C3: once an item's status is terminal no step changes it, and no row is
\* ever removed.
C3_TerminalStatusesStable ==
    [][\A i \in DOMAIN news :
          /\ i \in DOMAIN news'
          /\ news[i].status \in TerminalStatuses
                => news'[i].status = news[i].status]_vars

\* C4: a stage writes a status for an item only when the stored status is
\* still in that stage's own input set.
C4_CommitOnlyOverOwnInput ==
    [][\A s \in Stages :
          (pc[s] = "process" /\ queue'[s] # queue[s] /\ news' # news)
              => news[Head(queue[s]).id].status \in InputStatuses(s)]_vars

\* The next status of an AI stage as the specification states it.
advance(s, claimed, outcome) ==
    IF outcome = "Success" THEN s
    ELSE IF claimed = RetryStatus(s) THEN ErrorStatus(s)
    ELSE RetryStatus(s)

\* C5: whatever process_news_item returns for the item an AI stage has at
\* hand, the status the stage picks is the one advance gives for the status
\* the item was fetched with and the outcome of the attempt.
C5_NextStatusByOutcome ==
    /\ pc["rewriter"] = "process" =>
          LET item == Head(queue["rewriter"]) IN
          \A r \in rewriter_results(item) :
              rewriter_next_status(r.ok, r.finish_reason, item.status)
                  = advance("rewriter", item.status, r.outcome)
    /\ pc["illustrator"] = "process" =>
          LET item == Head(queue["illustrator"]) IN
          \A r \in illustrator_results(item) :
              illustrator_next_status(r.ok, r.finish_reason, item.status)
                  = advance("illustrator", item.status, r.outcome)

\* C6: an AI stage makes at most two attempts on an item (the attempts
\* that wrote a failure status and the attempts that left no status are at
\* most two together), and an item the stage has written two failures for
\* is at the stage's *_error status.
C6_TwoFailuresEndInError ==
    \A s \in AIStages : \A i \in Ids :
        /\ failCommits[s][i] + lostAttempts[s][i] <= 2
        /\ failCommits[s][i] = 2 => news[i].status = ErrorStatus(s)

\* C7: an item whose status is a stage's success status has that stage's
\* artifact, written in full, in the data directory.
C7_SuccessStatusHasArtifact ==
    \A i \in DOMAIN news :
        /\ news[i].status = "downloaded" => files[<<"news", i>>] = "data"
        /\ news[i].status = "scraper" => files[<<"scraper", i>>] = "data"
        /\ news[i].status = "rewriter" => files[<<"rewriter", i>>] = "html"
        /\ news[i].status = "illustrator" => files[<<"illustrator", i>>] = "png"

\* One item reached the illustrator's success status with its image while
\* another has a rewriter artifact and a status still in the rewriter's
\* input, with the rewriter back at the top of its loop: an attempt whose
\* status was never written.
C7_Witness ==
    \E i, j \in DOMAIN news :
        /\ news[i].status = "illustrator"
        /\ files[<<"illustrator", i>>] = "png"
        /\ news[j].status = "translated"
        /\ files[<<"rewriter", j>>] = "html"
        /\ pc["rewriter"] = "poll"

\* C8: a cycle ends only after the last fetched item: no failure on one
\* item keeps the items behind it from being handled.
C8_CycleHandlesEveryItem ==
    [][\A s \in Stages :
          (pc[s] = "process" /\ pc'[s] = "poll")
              => Len(queue[s]) = 1]_vars

\* C9: no failure at run time ends the loop of main of any stage.
C9_LoopNeverEnds ==
    \A s \in Stages : pc[s] # "exited"

\* C10: Telegram accepts at most one send per item.
C10_SentAtMostOnce ==
    \A i \in Ids : sent[i] <= 1

\* C11: under fairness an item at the illustrator's success status
\* eventually reaches published or publish_error.
C11_IllustratedGetsPublished ==
    \A i \in Ids :
        (i \in DOMAIN news /\ news[i].status = "illustrator")
            ~> (i \in DOMAIN news /\ news[i].status \in {"published", "publish_error"})

NonAIStages == {"downloader", "scraper"}

ArtifactOf(s) == IF s = "downloader" THEN "news" ELSE "scraper"

\* What a pass of a non-AI stage does to the item at hand when the stage's
\* success statuses are `success`: the status changes only from the stage's
\* input status to its success status, and only with the artifact written
\* in full; a pass that leaves no complete artifact changes no status; and
\* an item whose status is in the stage's input is in every list the
\* stage's next fetch can return.
NonAIPasses(success) ==
    \A s \in NonAIStages :
        /\ \A i \in DOMAIN news :
              news[i].status \in InputStatuses(s)
                  => \A q \in fetch(s, news) : \E k \in 1..Len(q) : q[k] = i
        /\ (pc[s] = "process" /\ queue'[s] # queue[s]) =>
              LET i == Head(queue[s]).id IN
              /\ news'[i].status # news[i].status =>
                    /\ news[i].status \in InputStatuses(s)
                    /\ news'[i].status = success[s]
                    /\ files'[<<ArtifactOf(s), i>>] = "data"
              /\ files'[<<ArtifactOf(s), i>>] # "data" => news' = news

\* C12 as stated: download takes new to downloaded, scrape takes downloaded
\* to scraped, and a failed pass leaves the status for the next poll.
C12_NonAIStagesAdvanceToScraped ==
    [][NonAIPasses([downloader |-> "downloaded", scraper |-> "scraped"])]_vars

\* C12 as amended: the status the scraper sets on success is "scraper".
C12_NonAIStagesAdvance ==
    [][NonAIPasses([downloader |-> "downloaded", scraper |-> "scraper"])]_vars

\* Both stages succeeded on one item, while a failed download left another
\* item at "new" with a torn file and the downloader has fetched it again.
C12_Witness ==
    \E i, j \in DOMAIN news :
        /\ news[i].status = "scraper"
        /\ news[j].status = "new"
        /\ files[<<"news", j>>] = "torn"
        /\ j \in ClaimedIds("downloader")

\* The failures C13 lists give publish_error.
listed_failures_final(r) ==
    \/ ~r.converted
    \/ ~r.calls[1].ok /\ r.calls[1].at = "telegraph"
    \/ ~r.calls[1].ok /\ r.calls[1].at = "telegram" /\ ~r.calls[1].rate_limited
    => r.next = "publish_error"

listed_failures_final_by_file ==
    [input \in FileStates |->
        \A r \in publisher_results_by_file[input] : listed_failures_final(r)]

\* No publish call without a conversion, and the status by the last call made.
status_by_last_call(r) ==
    /\ ~r.converted => r.calls = <<>> /\ r.next = "publish_error"
    /\ r.converted => r.calls # <<>>
    /\ r.next = IF r.calls # <<>> /\ r.calls[Len(r.calls)].ok
                THEN "published" ELSE "publish_error"

status_by_last_call_by_file ==
    [input \in FileStates |->
        \A r \in publisher_results_by_file[input] : status_by_last_call(r)]

one_retry_when_rate_limited(r) ==
    /\ Len(r.calls) <= 2
    /\ Len(r.calls) = 2 <=> r.converted /\ ~r.calls[1].ok /\ r.calls[1].rate_limited
    /\ Len(r.slept) = IF Len(r.calls) = 2 THEN 1 ELSE 0
    /\ \A k \in 1..Len(r.slept) :
          r.slept[k] \in {DefaultRetrySeconds} \cup 0..MaxRetryAfter
    /\ Len(r.calls) = 2 /\ ~r.calls[2].ok => r.next = "publish_error"
    /\ Len(r.calls) = 2 /\ r.calls[2].ok => r.next = "published"

one_retry_when_rate_limited_by_file ==
    [input \in FileStates |->
        \A r \in publisher_results_by_file[input] : one_retry_when_rate_limited(r)]

FailureStatuses ==
    {"rewriter_retry", "rewriter_error", "illustrator_retry", "illustrator_error",
     "publish_error"}

\* C15: an item that a failed transition has moved carries the failure's
\* diagnostic in a lastError field of its row.
C15_FailedItemCarriesLastError ==
    \A i \in DOMAIN news :
        news[i].status \in FailureStatuses => "lastError" \in DOMAIN news[i]

\* What a poll and the passes after it do when the rows are to come in the
\* order `le` of their dates: the list a poll takes holds exactly the rows
\* whose status is in the stage's input set, each once, with dates that
\* never decrease; and the passes take the list from its head, one item per
\* pass (or the cycle ends and the rest of the list is dropped).
ClaimsInOrder(le(_, _)) ==
    \A s \in Stages :
        /\ (pc[s] = "poll" /\ pc'[s] = "process") =>
              LET q == queue'[s] IN
              /\ {q[k].id : k \in 1..Len(q)} =
                    {i \in DOMAIN news : news[i].status \in InputStatuses(s)}
              /\ \A a, b \in 1..Len(q) : a # b => q[a].id # q[b].id
              /\ \A a, b \in 1..Len(q) : a < b => le(news[q[a].id].date, news[q[b].id].date)
        /\ (pc[s] = "process" /\ queue'[s] # queue[s]) =>
              queue'[s] \in {Tail(queue[s]), <<>>}

\* Two date texts in the order of the moments they name.
instant_le(a, b) == instant(a) <= instant(b)

\* C16: at each poll a stage takes exactly the items whose status is in its
\* input set, oldest first, and handles them one after the other in that
\* order.
C16_ClaimedOldestFirst == [][ClaimsInOrder(instant_le)]_vars

\* The same with the dates compared as the strings they are.
ClaimedInDateTextOrder == [][ClaimsInOrder(date_text_le)]_vars

\* What the match of an AI stage's loop sees of process_news_item's result.
returned(r) ==
    IF ~r.ok THEN "Err"
    ELSE IF r.finish_reason \in {"error", "length"} THEN "OkFailed" ELSE "OkDone"

\* The next status of the AI stages, written out pair by pair.
NextStatusTable ==
    [rewriter |->
        [translated |->
            [OkDone |-> "rewriter", OkFailed |-> "rewriter_retry", Err |-> "rewriter_retry"],
         rewriter_retry |->
            [OkDone |-> "rewriter", OkFailed |-> "rewriter_error", Err |-> "rewriter_error"]],
     illustrator |->
        [rewriter |->
            [OkDone |-> "illustrator", OkFailed |-> "illustrator_retry",
             Err |-> "illustrator_retry"],
         illustrator_retry |->
            [OkDone |-> "illustrator", OkFailed |-> "illustrator_error",
             Err |-> "illustrator_error"]]]

\* Whether every result the rewriter's attempt can have, by the state of its
\* two files and the fetched status, gives the status the table names.
rewriter_follows_table ==
    [input \in FileStates, old \in FileStates, c \in InputStatuses("rewriter") |->
        \A r \in rewriter_results_by_files[input, old] :
            rewriter_next_status(r.ok, r.finish_reason, c)
                = NextStatusTable["rewriter"][c][returned(r)]]

\* The same for the illustrator.
illustrator_follows_table ==
    [input \in FileStates, old \in FileStates, c \in InputStatuses("illustrator") |->
        \A r \in illustrator_results_by_files[input, old] :
            illustrator_next_status(r.ok, r.finish_reason, c)
                = NextStatusTable["illustrator"][c][returned(r)]]

\* The statuses a stage can write for an item it fetched with status c.
WritableStatuses(s, c) ==
    CASE s = "downloader" -> {"downloaded"}
      [] s = "scraper" -> {"scraper"}
      [] s = "publisher" -> {"published", "publish_error"}
      [] OTHER -> {NextStatusTable[s][c][o] : o \in {"OkDone", "OkFailed", "Err"}}

content_of(resp) == IF looks_like_html(resp.markers) THEN "html" ELSE "text"

\* A response that arrived and parsed, with a first choice.
has_content(resp) == resp.transport = "ok" /\ resp.json_ok /\ resp.has_choice

\* C18: for the item the rewriter has at hand, every answer with a
\* non-success HTTP status and a parsed body with content is a soft failure
\* with finish reason "error" that carries the content, whatever finish
\* reason the body names, and the status picked for it is not `rewriter`.
C18_HttpFailureNeverAdvances ==
    pc["rewriter"] = "process" =>
        LET item == Head(queue["rewriter"])
            input == files[<<"translator", item.id>>]
            old == files[<<"rewriter", item.id>>]
        IN  \A resp \in ChatResponses : \A io \in StageIo :
                (has_content(resp) /\ ~resp.http_ok) =>
                    LET res == rewrite_content(resp)
                        p == rewriter_process_news_item(input, resp, io, old)
                    IN  /\ res.tag = "ApiReturnedError"
                        /\ res.finish_reason = "error"
                        /\ res.content = content_of(resp)
                        /\ rewriter_next_status(p.ok, p.finish_reason, item.status)
                              # "rewriter"

\* An answer with a success HTTP status whose first choice names finish
\* reason "error" or "length".
finished_badly(resp) ==
    has_content(resp) /\ resp.http_ok /\ resp.finish_reason \in {"error", "length"}

\* For every such answer, by the state of the rewriter's two files and the
\* fetched status c: the result is ApiReturnedError with the answer's finish
\* reason and content; the status picked is the retry status, or the error
\* status for an item fetched at the retry status; and when the local file
\* operations succeed the content is what the output file holds.
bad_finish_is_soft_failure ==
    [input \in FileStates \ {"absent"}, old \in FileStates,
     c \in InputStatuses("rewriter") |->
        \A resp \in {x \in ChatResponses : finished_badly(x)} :
            LET res == rewrite_content(resp) IN
            /\ res.tag = "ApiReturnedError"
            /\ res.finish_reason = resp.finish_reason
            /\ res.content = content_of(resp)
            /\ \A io \in StageIo \ {"read_error"} :
                  LET p == rewriter_process_news_item(input, resp, io, old) IN
                  /\ rewriter_next_status(p.ok, p.finish_reason, c) =
                        IF c = "rewriter_retry" THEN "rewriter_error" ELSE "rewriter_retry"
                  /\ io = "ok" =>
                        p.ok /\ p.outcome = "SoftFailure" /\ p.file = content_of(resp)]

\* C19: in a pass of the rewriter on an item whose input file is there, an
\* answer with a success HTTP status and finish reason "error" or "length"
\* is a soft failure: the item is given rewriter_retry or rewriter_error,
\* never rewriter, and the answer's content is written to the output file;
\* and no pass that leaves other than a complete document in the output
\* file sets the status rewriter.
C19_BadFinishIsSoftFailure ==
    [][(pc["rewriter"] = "process" /\ queue'["rewriter"] # queue["rewriter"]) =>
          LET item == Head(queue["rewriter"])
              i == item.id
          IN  /\ files[<<"translator", i>>] # "absent" =>
                    bad_finish_is_soft_failure[files[<<"translator", i>>],
                                               files[<<"rewriter", i>>], item.status]
              /\ (files'[<<"rewriter", i>>] # "html"
                      /\ news'[i].status # news[i].status) =>
                    news'[i].status \in {"rewriter_retry", "rewriter_error"}]_vars

\* The rewriter has left an item at a failure status with the content of the
\* failed answer in its output file.
C19_Witness ==
    \E i \in DOMAIN news :
        /\ news[i].status \in {"rewriter_retry", "rewriter_error"}
        /\ files[<<"rewriter", i>>] \in {"html", "text"}

\* The structural check as C20 words it: an opening and a closing html
\* marker, or an opening and a closing body marker, or a doctype with a
\* closing html marker.
passes_structural_check(markers) ==
    \/ {"html_open", "html_close"} \subseteq markers
    \/ {"body_open", "body_close"} \subseteq markers
    \/ {"doctype", "html_close"} \subseteq markers

\* By the state of the rewriter's two files and the fetched status c: the
\* status rewriter is picked only for an answer whose content passed the
\* check, and that content is then what the output file holds.
commits_checked_content_only ==
    [input \in FileStates, old \in FileStates, c \in InputStatuses("rewriter") |->
        \A resp \in ChatResponses : \A io \in StageIo :
            LET p == rewriter_process_news_item(input, resp, io, old) IN
            rewriter_next_status(p.ok, p.finish_reason, c) = "rewriter"
                => passes_structural_check(resp.markers) /\ p.file = "html"]

\* An answer with content that fails the check is an ApiReturnedError whose
\* finish reason is `forced(resp)`, and never takes the item to rewriter.
failed_check_is_soft_failure(forced(_)) ==
    \A resp \in {x \in ChatResponses : has_content(x)} :
        ~passes_structural_check(resp.markers) =>
            LET res == rewrite_content(resp) IN
            /\ res.tag = "ApiReturnedError"
            /\ res.finish_reason = forced(resp)
            /\ \A c \in InputStatuses("rewriter") :
                  rewriter_next_status(TRUE, res.finish_reason, c)
                      \in {"rewriter_retry", "rewriter_error"}

forced_error(resp) == "error"

forced_error_or_kept_length(resp) ==
    IF resp.http_ok /\ resp.finish_reason = "length" THEN "length" ELSE "error"

failed_check_gives_error == failed_check_is_soft_failure(forced_error)

failed_check_gives_error_or_length ==
    failed_check_is_soft_failure(forced_error_or_kept_length)

\* What a pass of the rewriter does to the item at hand: it sets rewriter
\* only with a checked document in the output file, and an answer that
\* fails the check is handled as `failed_check` says.
RewriterCommitsChecked(failed_check) ==
    (pc["rewriter"] = "process" /\ queue'["rewriter"] # queue["rewriter"]) =>
        LET item == Head(queue["rewriter"])
            i == item.id
        IN  /\ failed_check
            /\ commits_checked_content_only[files[<<"translator", i>>],
                                            files[<<"rewriter", i>>], item.status]
            /\ (news'[i].status = "rewriter" /\ news[i].status # "rewriter")
                  => files'[<<"rewriter", i>>] = "html"

\* C20 as stated: the rewriter sets rewriter only for content that passed
\* the structural check, and content failing the check gives a soft failure
\* with finish reason "error".
C20_FailedCheckGivesFinishError ==
    [][RewriterCommitsChecked(failed_check_gives_error)]_vars

\* C20 as amended: the same, with the finish reason of the soft failure
\* being "length" when the answer had a success status and named "length",
\* and "error" otherwise.
C20_OnlyCheckedContentCommitted ==
    [][RewriterCommitsChecked(failed_check_gives_error_or_length)]_vars

\* The rewriter has set one item to rewriter with a checked document in its
\* output file and left another at rewriter_retry with content that failed
\* the check.
C20_Witness ==
    \E i, j \in DOMAIN news :
        /\ news[i].status = "rewriter" /\ files[<<"rewriter", i>>] = "html"
        /\ news[j].status = "rewriter_retry" /\ files[<<"rewriter", j>>] = "text"

\* The bytes start with the PNG signature, byte by byte.
begins_with_png_signature(bytes) ==
    Len(bytes) >= 8 /\ \A k \in 1..8 : bytes[k] = PNG_SIGNATURE[k]

\* An image answer that got as far as the signature check: it arrived with
\* a success status, parsed, named an image, and the bytes were obtained.
has_image_bytes(resp) ==
    /\ resp.transport = "ok" /\ resp.http_ok /\ resp.json_ok
    /\ resp.has_image /\ resp.bytes = "ok"

\* By the state of the illustrator's two files and the fetched status c, for
\* both providers: bytes that do not start with the signature give an
\* ApiReturnedError with finish reason "error", no file written, and the
\* retry or error status; and the status illustrator is picked only for
\* bytes that start with the signature and were written to the output file.
png_checked_before_commit ==
    [input \in FileStates \ {"absent"}, old \in FileStates,
     c \in InputStatuses("illustrator") |->
        \A t \in ProviderTypes : \A resp \in ImageResponses :
            \A io \in StageIo \ {"read_error"} :
                LET res == illustrate_content(t, resp)
                    p == illustrator_process_news_item(input, t, resp, io, old)
                    next == illustrator_next_status(p.ok, p.finish_reason, c)
                IN  /\ (has_image_bytes(resp) /\ ~begins_with_png_signature(resp.payload)) =>
                          /\ res.tag = "ApiReturnedError" /\ res.finish_reason = "error"
                          /\ p.outcome = "SoftFailure" /\ p.file = old
                          /\ next = IF c = "illustrator_retry"
                                    THEN "illustrator_error" ELSE "illustrator_retry"
                    /\ next = "illustrator" =>
                          /\ has_image_bytes(resp)
                          /\ begins_with_png_signature(resp.payload)
                          /\ p.file = "png"]

\* C21: in a pass of the illustrator, with either provider, image bytes that
\* do not begin with the 8-byte PNG signature (fewer than 8 bytes included)
\* are a soft failure with finish reason "error" although the HTTP status
\* was a success, and the pass sets the status illustrator only when the
\* file it wrote holds bytes that begin with the signature.
C21_OnlyPngCommitted ==
    [][(pc["illustrator"] = "process" /\ queue'["illustrator"] # queue["illustrator"]) =>
          LET item == Head(queue["illustrator"])
              i == item.id
          IN  /\ files[<<"rewriter", i>>] # "absent" =>
                    png_checked_before_commit[files[<<"rewriter", i>>],
                                              files[<<"illustrator", i>>], item.status]
              /\ (news'[i].status = "illustrator" /\ news[i].status # "illustrator")
                    => files'[<<"illustrator", i>>] = "png"]_vars

\* The illustrator has set one item to illustrator with a PNG written and
\* left another at illustrator_retry with no image file.
C21_Witness ==
    \E i, j \in DOMAIN news :
        /\ news[i].status = "illustrator" /\ files[<<"illustrator", i>>] = "png"
        /\ news[j].status = "illustrator_retry" /\ files[<<"illustrator", j>>] = "absent"

\* The request failed (a timeout included) or the body could not be read.
transport_failed(resp) == resp.transport # "ok"

\* The body arrived and is not the expected JSON.
unparseable(resp) == resp.transport = "ok" /\ ~resp.json_ok

\* The body parsed and has no first choice.
no_choices(resp) == resp.transport = "ok" /\ resp.json_ok /\ ~resp.has_choice

\* The body parsed and names no image.
no_image(resp) == resp.transport = "ok" /\ resp.json_ok /\ ~resp.has_image

\* By the state of the rewriter's two files and the fetched status c: a
\* failed transport, an unparseable body and a body without choices are each
\* a hard failure, and the status picked is the retry or the error status.
rewriter_hard_failures ==
    [input \in FileStates \ {"absent"}, old \in FileStates,
     c \in InputStatuses("rewriter") |->
        \A resp \in ChatResponses : \A io \in StageIo \ {"read_error"} :
            (transport_failed(resp) \/ unparseable(resp) \/ no_choices(resp)) =>
                LET p == rewriter_process_news_item(input, resp, io, old) IN
                /\ p.outcome = "HardFailure"
                /\ rewriter_next_status(p.ok, p.finish_reason, c)
                      \in {"rewriter_retry", "rewriter_error"}]

\* The same for the illustrator and both providers, where `soft(resp)` says
\* for which answers an unparseable body or a body without an image is a
\* soft failure instead.
illustrator_hard_failures(soft(_)) ==
    [input \in FileStates \ {"absent"}, old \in FileStates,
     c \in InputStatuses("illustrator") |->
        \A t \in ProviderTypes : \A resp \in ImageResponses :
            \A io \in StageIo \ {"read_error"} :
                (transport_failed(resp) \/ unparseable(resp) \/ no_image(resp)) =>
                    LET p == illustrator_process_news_item(input, t, resp, io, old) IN
                    /\ p.outcome = IF ~transport_failed(resp) /\ soft(resp)
                                   THEN "SoftFailure" ELSE "HardFailure"
                    /\ illustrator_next_status(p.ok, p.finish_reason, c)
                          \in {"illustrator_retry", "illustrator_error"}]

never_soft(resp) == FALSE

soft_on_http_failure(resp) == ~resp.http_ok

illustrator_failures_all_hard == illustrator_hard_failures(never_soft)

illustrator_failures_hard_on_http_success == illustrator_hard_failures(soft_on_http_failure)

\* What the passes of the two AI stages do with such answers, given the
\* illustrator's table.
HardFailuresClassified(illustrator_table) ==
    /\ (pc["rewriter"] = "process" /\ queue'["rewriter"] # queue["rewriter"]) =>
          LET item == Head(queue["rewriter"]) IN
          files[<<"translator", item.id>>] # "absent" =>
              rewriter_hard_failures[files[<<"translator", item.id>>],
                                     files[<<"rewriter", item.id>>], item.status]
    /\ (pc["illustrator"] = "process" /\ queue'["illustrator"] # queue["illustrator"]) =>
          LET item == Head(queue["illustrator"]) IN
          files[<<"rewriter", item.id>>] # "absent" =>
              illustrator_table[files[<<"rewriter", item.id>>],
                                files[<<"illustrator", item.id>>], item.status]

\* C22 as stated: a transport failure, an unparseable body and an empty
\* result are each a hard failure, for the text and for the image stage.
C22_FailuresAllHard == [][HardFailuresClassified(illustrator_failures_all_hard)]_vars

\* C22 as amended: the same for the text stage; for the image stage an
\* unparseable body and a body without an image are a hard failure when the
\* HTTP status is a success and a soft failure when it is not; none of them
\* is ever a success.
C22_FailuresHardOnHttpSuccess ==
    [][HardFailuresClassified(illustrator_failures_hard_on_http_success)]_vars

\* The rewriter has left an item at rewriter_retry with no output written,
\* and the illustrator has left another at illustrator_error.
C22_Witness ==
    \E i, j \in DOMAIN news :
        /\ news[i].status = "rewriter_retry" /\ files[<<"rewriter", i>>] = "absent"
        /\ news[j].status = "illustrator_error" /\ files[<<"illustrator", j>>] = "absent"

\* The extractors in the words of C23.  A document-start marker is any of
\* the three the code searches for.
first_start_marker(s) ==
    LET at == {i \in 1..Len(s) : s[i] \in {"<html", "<!DOCTYPE", "<!doctype"}}
    IN  IF at = {} THEN 0 ELSE CHOOSE i \in at : \A j \in at : i <= j

document_from_first_marker(s) ==
    LET start == first_start_marker(s)
        end == rfind(s, <<"</html>">>)
    IN  IF start = 0 \/ end = 0 \/ start > end THEN <<>>
        ELSE <<trim(SubSeq(s, start, end))>>

first_match_in_priority_order(content) ==
    LET c == trim(content) IN
    IF document_from_first_marker(c) # <<>> THEN document_from_first_marker(c)[1]
    ELSE IF extract_fenced_block(c, <<"fence", "html">>) # <<>>
    THEN extract_fenced_block(c, <<"fence", "html">>)[1]
    ELSE IF extract_any_fenced_block(c) # <<>> THEN extract_any_fenced_block(c)[1]
    ELSE c

\* C23: the extracted text is the result of the first extractor that
\* matches, in the order document block (from the first document-start
\* marker to the end of the last document-end marker), fenced block tagged
\* html, any fenced block, trimmed answer.
C23_FirstMatchingExtractor ==
    result # <<>> => result[1] = first_match_in_priority_order(arg)

\* The efforts each backend knows.
Vocabulary(provider_type) ==
    CASE provider_type = "OpenRouter" -> {"xhigh", "high", "medium", "low", "minimal", "none"}
      [] provider_type = "Perplexity" -> {"low", "medium", "high"}
      [] provider_type = "Gemini" -> {"minimal", "low", "medium", "high"}

\* The configured effort word, trimmed and in lower case; "" when the
\* variable is not set.
configured_effort(env) == IF env.effort = <<>> THEN "" ELSE env.effort[1].word

\* Reasoning is switched off in so many words.
explicitly_disabled(env) ==
    env.enabled # <<>> /\ env.enabled[1].word \in {"0", "false", "no", "n", "off"}

\* C24: the effort a request carries, once computed, is a value of the
\* provider's vocabulary or is left out; a configured value outside the six
\* known ones is left out; Perplexity gets high for xhigh and high, and low
\* for minimal and low; OpenRouter gets the known value as configured; and
\* Perplexity and Gemini get no effort for the value none or when reasoning
\* is switched off.
C24_EffortMappedOrOmitted ==
    result # <<>> =>
        LET sent_effort == result[1]
            e == configured_effort(arg)
            t == arg.provider_type
        IN  /\ sent_effort = <<>> \/ (Len(sent_effort) = 1 /\ sent_effort[1] \in Vocabulary(t))
            /\ e \notin Vocabulary("OpenRouter") => sent_effort = <<>>
            /\ (t = "Perplexity" /\ ~explicitly_disabled(arg)) =>
                  /\ e \in {"xhigh", "high"} => sent_effort = <<"high">>
                  /\ e \in {"minimal", "low"} => sent_effort = <<"low">>
                  /\ e = "medium" => sent_effort = <<"medium">>
            /\ (t = "OpenRouter" /\ e \in Vocabulary("OpenRouter")) => sent_effort = <<e>>
            /\ (t \in {"Perplexity", "Gemini"} /\ (e = "none" \/ explicitly_disabled(arg)))
                  => sent_effort = <<>>

\* The request to Perplexity was given low for a configured " MINIMAL ".
C24_Witness ==
    /\ result = <<<<"low">>>>
    /\ arg.provider_type = "Perplexity"
    /\ arg.effort = <<[word |-> "minimal", upper |-> TRUE, padded |-> TRUE]>>

\* ---------------------------------------------------------------------
\* occurs(s, part): the characters of `part` stand side by side in s.
occurs(s, part) ==
    \E k \in 0..(Len(s) - Len(part)) : SubSeq(s, k + 1, k + Len(part)) = part

\* "<b>Title</b>\n\nHello <b>world</b>\n\n"
ExampleRichText ==
    <<"<", "b", ">", "T", "i", "t", "l", "e", "<", "/", "b", ">", "nl", "nl",
      "H", "e", "l", "l", "o", " ", "<", "b", ">", "w", "o", "r", "l", "d",
      "<", "/", "b", ">", "nl", "nl">>

\* C25: the document <html><body><h1>Title</h1><p>Hello <b>world</b></p>
\* </body></html> converts to "<b>Title</b>\n\nHello <b>world</b>\n\n",
\* and in the conversion of any document no character is put between an
\* opening <b> and the first text of the element: text nodes are trimmed,
\* so no space follows an opening <b>.
C25_BoldWrapsChildrenDirectly ==
    result # <<>> =>
        /\ arg = ExampleDocument => result[1] = ExampleRichText
        /\ ~occurs(result[1], <<"<", "b", ">", " ">>)

\* C26: the normalized output of the conversion of any document holds no
\* three newlines in a row and no two spaces in a row.
C26_NoLongRunsOfWhiteSpace ==
    result # <<>> =>
        /\ ~occurs(result[1], <<"nl", "nl", "nl">>)
        /\ ~occurs(result[1], <<" ", " ">>)

\* The string with every tag, from a "<" to the next ">", replaced by one
\* space.  A "<" that no ">" follows begins a tag that runs to the end of
\* the string when `open_ended`, and no tag otherwise.
RECURSIVE tags_as_spaces(_, _)
tags_as_spaces(s, open_ended) ==
    IF s = <<>> THEN s
    ELSE IF s[1] = "<" /\ find(s, <<">">>) # 0
         THEN <<" ">> \o tags_as_spaces(after(s, find(s, <<">">>)), open_ended)
         ELSE IF s[1] = "<" /\ open_ended THEN <<" ">>
         ELSE <<s[1]>> \o tags_as_spaces(Tail(s), open_ended)

\* The string with every run of white space made one space and none left
\* at its ends.
RECURSIVE spaces_collapsed(_)
spaces_collapsed(s) ==
    IF s = <<>> THEN s
    ELSE IF is_whitespace(s[1])
         THEN IF Len(s) = 1 \/ is_whitespace(s[2])
              THEN spaces_collapsed(Tail(s))
              ELSE <<" ">> \o spaces_collapsed(Tail(s))
         ELSE <<s[1]>> \o spaces_collapsed(Tail(s))

plain_text(s, open_ended) ==
    str_trim(spaces_collapsed(tags_as_spaces(s, open_ended)))

\* "Hello world !"
ExamplePlainText ==
    <<"H", "e", "l", "l", "o", " ", "w", "o", "r", "l", "d", " ", "!">>

\* C29 as stated: stripping removes every tag ("<" through the next ">"),
\* keeps the characters outside tags that are not white space, in order,
\* and leaves exactly one space where a tag or a run of white space stood
\* between two of them: no space at either end, no two spaces in a row.
C29_StrippedTextIsPlainText ==
    result # <<>> => result[1] = plain_text(arg, FALSE)

\* C29 amended: the same, a "<" that no ">" follows counting as a tag
\* that runs to the end of the string.
C29_StrippedTextIsPlainTextOpenEnded ==
    result # <<>> => result[1] = plain_text(arg, TRUE)

\* The string of tests::strip_html_tags_basic stripped to "Hello world !".
C29_Witness ==
    /\ arg = ExampleMarkup
    /\ result = <<ExamplePlainText>>

\* The string with the characters inside every tag taken out: "<" and
\* the ">" that closes it are left.
RECURSIVE tags_emptied(_)
tags_emptied(s) ==
    IF s = <<>> THEN s
    ELSE IF s[1] = "<" /\ find(s, <<">">>) # 0
         THEN <<"<", ">">> \o tags_emptied(after(s, find(s, <<">">>)))
         ELSE <<s[1]>> \o tags_emptied(Tail(s))

\* One for every character of the basic plane, two for every other one.
utf16_units(s) ==
    Cardinality({k \in 1..Len(s) : s[k] # "E"})
        + 2 * Cardinality({k \in 1..Len(s) : s[k] = "E"})

\* C28: the measured length is the number of UTF-16 code units of the
\* stripped text, one for a character of the basic plane and two for a
\* character outside it; the characters inside tags add nothing to it.
C28_LengthInUtf16UnitsOfStrippedText ==
    result # <<>> =>
        /\ result[1] = utf16_units(strip_html_tags_to_text(arg))
        /\ result[1] = utf16_units(strip_html_tags_to_text(tags_emptied(arg)))

\* A tag with a character inside, then a character outside the basic
\* plane and one inside it: three code units.
C28_Witness ==
    /\ arg = <<"<", "p", ">", "E", "x">>
    /\ result = <<3>>

\* The UTF-16 length of the stripped message send_to_telegram measures.
measured(content) ==
    utf16_units(strip_html_tags_to_text(content \o PublicationSuffix))

\* C27: the length check is a strict upper bound.  A message whose
\* stripped text measures at most the limit, the limit itself included,
\* is sent in the short form (the full text to sendMessage, no telegra.ph
\* page); one of limit + 1 or more takes the long form (a page is asked
\* of telegra.ph and only the fallback text is sent).
C27_LimitIsStrictUpperBound ==
    (result # <<>> /\ result[1].at # "prepare") =>
        /\ measured(arg) <= TELEGRAM_SENDMESSAGE_TEXT_LIMIT_UTF16 =>
              /\ result[1].at = "telegram"
              /\ result[1].pages = 0
              /\ result[1].text = "full"
        /\ measured(arg) >= TELEGRAM_SENDMESSAGE_TEXT_LIMIT_UTF16 + 1 =>
              /\ result[1].text \in {"none", "fallback"}
              /\ result[1].at = "telegraph" \/ result[1].pages = 1

\* A message of exactly the limit sent in the short form.
C27_Witness ==
    /\ result # <<>>
    /\ measured(arg) = TELEGRAM_SENDMESSAGE_TEXT_LIMIT_UTF16
    /\ result[1].ok
    /\ result[1].text = "full"

\* The text nodes under a node, in document order.
RECURSIVE text_nodes(_)
text_nodes(node) ==
    IF node.tag = "#text" THEN <<node.text>>
    ELSE flatten([k \in 1..Len(node.children) |-> text_nodes(node.children[k])])

RECURSIVE only_p_b_a(_)
only_p_b_a(node) ==
    /\ node.tag \in {"#text", "body", "p", "b", "a"}
    /\ \A k \in 1..Len(node.children) : only_p_b_a(node.children[k])

\* The plain content of a document: its text nodes in document order,
\* one space apart, white space collapsed and trimmed.
plain_content(document) ==
    LET texts == text_nodes(document)
    IN  str_trim(spaces_collapsed(
            flatten([k \in 1..Len(texts) |-> texts[k] \o <<" ">>])))

\* C30: for a document of p, b and a elements and text, the converted and
\* stripped text has the UTF-16 length of the plain content of the
\* document.
C30_RoundTripKeepsLength ==
    (result # <<>> /\ only_p_b_a(arg)) =>
        utf16_units(result[1]) = utf16_units(plain_content(arg))

\* The strings made of the whole characters of s up to some place.
whole_prefixes(s) ==
    LET characters == chars(s)
    IN  {flatten(SubSeq(characters, 1, k)) : k \in 0..Len(characters)}

\* C31: for a budget of at least the length of the marker, a string of at
\* most max_bytes bytes is returned as it is, without the marker; a longer
\* one gives at most max_bytes bytes that end with the marker, and what
\* stands before the marker is the longest prefix of whole characters of
\* the string that fits in max_bytes minus the length of the marker.
C31_TruncatedAtCharacterWithinBudget ==
    (result # <<>> /\ arg.max_bytes >= Len(TruncationSuffix)) =>
        IF Len(arg.s) <= arg.max_bytes
        THEN result[1] = arg.s
        ELSE LET room == arg.max_bytes - Len(TruncationSuffix)
                 kept == SubSeq(result[1], 1, Len(result[1]) - Len(TruncationSuffix))
             IN  /\ Len(result[1]) <= arg.max_bytes
                 /\ ends_with(result[1], TruncationSuffix)
                 /\ kept \in whole_prefixes(arg.s)
                 /\ Len(kept) <= room
                 /\ \A longer \in whole_prefixes(arg.s) :
                        Len(longer) <= room => Len(longer) <= Len(kept)

\* A string cut where a byte budget would have fallen inside a four-byte
\* character: that character is left out whole.
C31_Witness ==
    /\ arg.s = encode_utf8(<<"x", "E", "E", "E", "E">>)
    /\ arg.max_bytes = Len(TruncationSuffix) + 3
    /\ result = <<(<<"x">> \o TruncationSuffix)>>

\* Every element of a list of page nodes, at every depth, has a tag of the
\* list and no attribute but href and src.
RECURSIVE page_nodes_allowed(_)
page_nodes_allowed(nodes) ==
    \A k \in 1..Len(nodes) :
        LET node == nodes[k] IN
        node.tag # "#text" =>
            /\ node.tag \in TelegraphAllowedTags
            /\ node.attrs # <<>> => DOMAIN node.attrs[1] \subseteq {"href", "src"}
            /\ node.children # <<>> => page_nodes_allowed(node.children[1])

\* C32: every element of the page, at every depth, has a tag of the
\* allow-list and no attribute other than href and src; a document of one
\* element whose tag is not on the list gives one p element holding the
\* page nodes of its children, or nothing when there are none.
C32_PageHoldsAllowedTagsAndAttrs ==
    result # <<>> =>
        /\ page_nodes_allowed(result[1])
        /\ (Len(arg.children) = 1 /\ arg.children[1].tag \notin TelegraphAllowedTags \cup {"#text"}) =>
              LET inner == telegraph_nodes_from_children(arg.children[1])
              IN  result[1] = IF inner = <<>> THEN <<>>
                              ELSE <<PageNode("p", <<>>, <<>>, <<inner>>)>>

\* A div with a class and an href, holding a link with a class and an
\* href: a p without attributes holding a link with the href alone.
C32_Witness ==
    /\ arg = PageNode("body", <<>>, <<>>,
                <<PageNode("div", <<(<<"class", "u">>), <<"href", "u">>>>, <<>>,
                     <<PageNode("a", <<(<<"class", "u">>), <<"href", "u">>>>, <<>>, <<>>)>>)>>)
    /\ result = <<(<<PageNode("p", <<>>, <<>>,
                       <<(<<PageNode("a", <<[name \in {"href"} |-> "u"]>>, <<>>, <<>>)>>)>>)>>)>>

\* C33: a message over the limit is first published to telegra.ph, and
\* sendMessage is then given the fallback text with the address of the
\* page, never the full text; when the publication to telegra.ph fails
\* the call makes no sendMessage request and returns an error.
C33_LongFormFirstThenFallback ==
    (/\ result # <<>>
     /\ result[1].at # "prepare"
     /\ measured(arg) > TELEGRAM_SENDMESSAGE_TEXT_LIMIT_UTF16) =>
        /\ result[1].text # "full"
        /\ result[1].at = "telegram" =>
              result[1].pages = 1 /\ result[1].text = "fallback"
        /\ result[1].at = "telegraph" =>
              /\ result[1].pages = 0
              /\ result[1].text = "none"
              /\ ~result[1].ok

\* A message over the limit whose page could not be created: no
\* sendMessage request, an error returned.
C33_Witness ==
    /\ result # <<>>
    /\ measured(arg) > TELEGRAM_SENDMESSAGE_TEXT_LIMIT_UTF16
    /\ result[1] = SendResult(FALSE, FALSE, "telegraph", 0, "none")

\* C34: ingestion creates each item once, at status new.  After a run of
\* the parser every row the table held is still there with its title, url,
\* date and status as they were, whatever the status and whatever the page
\* says about that URL; every row the run added stands under the id
\* generate_id gives its URL, holds one of the page's headlines for that
\* URL (the first one on the list of fetch_news) and has status new; and
\* no URL has two rows.
C34_IngestedOnceAtNew ==
    result # <<>> =>
        LET held == arg.table
            stored == result[1]
            items == fetch_news(arg.page)
        IN  /\ \A i \in DOMAIN held : i \in DOMAIN stored /\ stored[i] = held[i]
            /\ \A i \in DOMAIN stored \ DOMAIN held :
                  /\ i = generate_id(stored[i].url)
                  /\ stored[i].status = "new"
                  /\ \E k \in 1..Len(items) :
                        /\ items[k].id = i
                        /\ stored[i] = [title |-> items[k].title, url |-> items[k].url,
                                       date |-> items[k].date, status |-> "new"]
                        /\ \A j \in 1..(k - 1) : items[j].id # i
            /\ \A u \in Urls :
                  Cardinality({i \in DOMAIN stored : stored[i].url = u}) <= 1

\* A page naming a stored URL whose row has moved past new and holds
\* another date than the page gives; the run went over the whole page and
\* also added a row.
C34_Witness ==
    /\ result # <<>>
    /\ \E k \in 1..Len(arg.page) :
          LET i == generate_id(arg.page[k].url) IN
          /\ i \in DOMAIN arg.table
          /\ arg.table[i].status = "published"
          /\ arg.table[i].date # arg.page[k].date
          /\ result[1][i] = arg.table[i]
    /\ DOMAIN result[1] # DOMAIN arg.table

\* C35: after ingestion no step changes an item's id, title, url or date.
\* In every step each row stays in the table under its id with the same
\* title, url and date; at most one row changes its status, and the row
\* that does is the one at the head of the list of a worker that is
\* processing and moves on with this step (or the one the translation
\* worker takes from the scraper's status to "translated").
C35_StepsChangeOneStatusOnly ==
    [][/\ \A i \in DOMAIN news :
             /\ i \in DOMAIN news'
             /\ news'[i].title = news[i].title
             /\ news'[i].url = news[i].url
             /\ news'[i].date = news[i].date
             /\ news'[i].status # news[i].status =>
                   \/ \E s \in Stages :
                         /\ pc[s] = "process"
                         /\ Head(queue[s]).id = i
                         /\ queue'[s] # queue[s]
                   \/ /\ news[i].status = "scraper"
                      /\ news'[i].status = "translated"
       /\ Cardinality({i \in DOMAIN news \cap DOMAIN news' :
                          news'[i].status # news[i].status}) <= 1]_vars

\* Two rows, one published and one a worker has not touched, the
\* published one with a date that is not the one update_status_and_date
\* would leave.
C35_Witness ==
    \E i, j \in DOMAIN news :
        /\ news[i].status = "published"
        /\ news[i].date # <<1, 0>>
        /\ news[j].status = "new"

\* The status an item at rewriter_retry (illustrator_retry) moves to is
\* the success status of the stage or its *_error status.
RetryStepGoesToSuccessOrError ==
    [][\A s \in AIStages : \A i \in DOMAIN news :
          (news[i].status = RetryStatus(s) /\ news'[i].status # RetryStatus(s)) =>
              news'[i].status \in {s, ErrorStatus(s)}]_vars

\* An item at rewriter_retry (illustrator_retry) does not stay there.
RetryIsLeft ==
    \A s \in AIStages : \A i \in Ids :
        (i \in DOMAIN news /\ news[i].status = RetryStatus(s))
            ~> (i \in DOMAIN news /\ news[i].status # RetryStatus(s))

\* C36: the bounded retry terminates.  With the workers polling for ever,
\* every provider call returning and every update committing, an item at
\* rewriter_retry (illustrator_retry) leaves that status, and the status
\* it leaves for is the success status of the stage or its *_error status.
C36_RetryTerminates ==
    RetryStepGoesToSuccessOrError /\ RetryIsLeft

\* The image call came back with an image the illustrator accepts: the
\* request and the HTTP status succeeded, the body parsed and names an
\* image, its bytes were obtained and they begin with the PNG signature.
usable_image(resp) ==
    /\ resp.transport = "ok"
    /\ resp.http_ok
    /\ resp.json_ok
    /\ resp.has_image
    /\ resp.bytes = "ok"
    /\ begins_with_png_signature(resp.payload)

\* By the state of the rewriter's two files: an attempt with the input
\* file missing, a failed transport, an unparseable body or a body without
\* choices returns Err and leaves the output file as it was.
rewriter_keeps_artifact ==
    [input \in FileStates, old \in FileStates |->
        \A resp \in ChatResponses : \A io \in StageIo :
            LET p == rewriter_process_news_item(input, resp, io, old) IN
            (\/ input = "absent"
             \/ transport_failed(resp)
             \/ unparseable(resp)
             \/ no_choices(resp)) => ~p.ok /\ p.file = old]

\* By the state of the illustrator's two files: an attempt with the input
\* file missing or without a usable image is not a success and leaves the
\* output file as it was.
illustrator_keeps_artifact ==
    [input \in FileStates, old \in FileStates |->
        \A provider_type \in ProviderTypes :
            \A resp \in ImageResponses : \A io \in StageIo :
                LET p == illustrator_process_news_item(input, provider_type, resp, io, old) IN
                (input = "absent" \/ ~usable_image(resp)) =>
                    p.outcome # "Success" /\ p.file = old]

\* C37: a failed attempt that returned no usable payload leaves the
\* stage's output file as it was.  In every pass of the rewriter a missing
\* input file, a failed transport, an unparseable body and an answer
\* without choices write nothing; in every pass of the illustrator no
\* answer but a usable image writes anything, and a pass that sets
\* illustrator_retry or illustrator_error leaves the image file as it was
\* or, when writing a usable image failed half way, cut short.
C37_FailedAttemptKeepsArtifact ==
    [][/\ (pc["rewriter"] = "process" /\ queue'["rewriter"] # queue["rewriter"]) =>
             LET i == Head(queue["rewriter"]).id IN
             /\ rewriter_keeps_artifact[files[<<"translator", i>>], files[<<"rewriter", i>>]]
             /\ files[<<"translator", i>>] = "absent" =>
                   files'[<<"rewriter", i>>] = files[<<"rewriter", i>>]
       /\ (pc["illustrator"] = "process" /\ queue'["illustrator"] # queue["illustrator"]) =>
             LET i == Head(queue["illustrator"]).id IN
             /\ illustrator_keeps_artifact[files[<<"rewriter", i>>],
                                           files[<<"illustrator", i>>]]
             /\ (/\ news'[i].status # news[i].status
                 /\ news'[i].status \in {"illustrator_retry", "illustrator_error"}) =>
                   files'[<<"illustrator", i>>] \in {files[<<"illustrator", i>>], "torn"}]_vars

\* An image written by an earlier attempt whose status was never stored is
\* still there after a failed attempt, and the rewriter has left another
\* item at rewriter_error with no output file.
C37_Witness ==
    \E i, j \in DOMAIN news :
        /\ news[i].status = "illustrator_retry"
        /\ files[<<"illustrator", i>>] = "png"
        /\ news[j].status = "rewriter_error"
        /\ files[<<"rewriter", j>>] = "absent"

\* C38: the payload submitted to the long-form surface never exceeds the
\* byte budget.  For every message that takes the long form (its stripped
\* text measures more than the limit of sendMessage) the serialized node
\* tree posted as `content` is at most
\* TELEGRAPH_CREATEPAGE_CONTENT_LIMIT_BYTES bytes long.
C38_PayloadWithinBudget ==
    (/\ result # <<>>
     /\ telegram_text_len_utf16_after_entities_guess(arg)
            > TELEGRAM_SENDMESSAGE_TEXT_LIMIT_UTF16) =>
        Len(result[1]) <= TELEGRAPH_CREATEPAGE_CONTENT_LIMIT_BYTES

====
